---- MODULE Spec2Model ----
(***************************************************************************)
(* The enrichment pipeline of clayworks/data/enrichment.py:                *)
(* EnrichmentPipeline.add_step / _recalculate_order build the execution    *)
(* order, EnrichmentPipeline.enrich runs the steps in that order against a *)
(* ProspectRecord, EnrichmentStep.execute retries the step's fetch.        *)
(***************************************************************************)
EXTENDS Integers, Sequences, FiniteSets, TLC

\* ------------------------------------------------------------------ bounds
\* add_step calls made on one pipeline
MaxSteps == 3
\* largest retry_count given to a step
MaxRetry == 1

\* ------------------------------------------------------------------ values
\* Python's None where a string is expected (EnrichmentResult.error, last_error)
None == "None"

\* EnrichmentStatus values
PENDING == "pending"
IN_PROGRESS == "in_progress"
COMPLETED == "completed"
FAILED == "failed"
SKIPPED == "skipped"

\* step names used by the callers of add_step
Names == {"A", "B", "C"}

\* messages of the errors a fetch function raises
Errors == {"e1", "e2"}

\* A Dict[str, Any] is a function from its keys to its values.
\* Python's None and {} for EnrichmentResult.data are both falsy at the one
\* place the field is read (merge_enrichment), and are both the empty map here.
EmptyDict == [k \in {} |-> None]

\* dict.update: the keys of u are added to d or override it
DictUpdate(d, u) ==
    [k \in (DOMAIN d) \cup (DOMAIN u) |-> IF k \in DOMAIN u THEN u[k] ELSE d[k]]

\* the caller's initial_data
InitialData == [k1 |-> "init", k0 |-> "init"]

\* EnrichmentStep(...): fetch_function is the field map the function returns
\* when it does not raise; whether a call raises is decided call by call.
EnrichmentStep(name, depends_on, required, retry_count, enabled, fetch_function) ==
    [name |-> name, depends_on |-> depends_on, required |-> required,
     retry_count |-> retry_count, enabled |-> enabled,
     fetch_function |-> fetch_function]

\* get_step's None
NoStep == [name |-> None]

\* no earlier enrich call
NoRun == [returned |-> None]

\* the steps the callers hand to add_step
StepPool ==
    { EnrichmentStep("A", <<>>, FALSE, MaxRetry, TRUE, [k1 |-> "a"]),
      EnrichmentStep("A", <<>>, TRUE, 0, TRUE, [k1 |-> "a2", k2 |-> "a2"]),
      EnrichmentStep("A", <<>>, TRUE, 0, FALSE, [k1 |-> "a"]),
      EnrichmentStep("A", <<"B">>, FALSE, 0, TRUE, [k1 |-> "a"]),
      EnrichmentStep("B", <<"A">>, TRUE, MaxRetry, TRUE, [k1 |-> "b"]),
      EnrichmentStep("B", <<"A">>, FALSE, 0, TRUE, [k2 |-> "b"]),
      EnrichmentStep("B", <<>>, FALSE, 0, TRUE, [k1 |-> "b", k2 |-> "b"]),
      EnrichmentStep("B", <<"B", "C">>, FALSE, 0, TRUE, [k2 |-> "b"]),
      EnrichmentStep("C", <<"B">>, FALSE, 0, TRUE, [k2 |-> "c"]),
      EnrichmentStep("C", <<"A">>, FALSE, 0, TRUE, [k1 |-> "c"]),
      EnrichmentStep("C", <<"A">>, FALSE, 0, FALSE, [k1 |-> "c"]),
      EnrichmentStep("C", <<>>, TRUE, 0, TRUE, [k2 |-> "c"]),
      EnrichmentStep("C", <<"A", "B">>, FALSE, 0, TRUE, [k1 |-> "c"]) }

\* ------------------------------------------------------------------ state
VARIABLES
    steps,        \* EnrichmentPipeline.steps
    step_order,   \* EnrichmentPipeline._step_order
    pc,           \* where the caller / enrich is: idle, loop, fetch, return, done, raised
    idx,          \* position of enrich's for loop in _step_order
    record,       \* the ProspectRecord of the run
    retries,      \* execute's local retries
    last_error,   \* execute's local last_error
    fetch_log,    \* history: per step name, the outcome of each fetch_function
                  \* call of the run in call order ("ok" or the error raised)
    returned,     \* what enrich returned to the caller (<<>> until it returns)
    first_run,    \* history: what an earlier enrich call returned and the
                  \* outcomes of its fetch calls (NoRun until a second call)
    parallel,     \* enrich_batch's parallel argument
    workers,      \* enrich_batch: per prospect, the locals of its enrich call
    records,      \* enrich_batch: the ProspectRecord objects the calls created
    batch_results, \* what enrich_batch returned (<<>> until it returns)
    builder,      \* the DataRecipeBuilder's fields
    recipe,       \* the DataRecipe that build() returned (NoRecipe before)
    recipe_call,  \* the last call made on the recipe, or on a condition of
                  \* its own, and what came of it
    scorer,       \* the ProspectScorer: threshold and rules
    scored,       \* what the last score_prospect call returned (NoScore before)
    score_function_calls, \* history: the score_function calls of the last
                  \* scoring call, each as the prospect's id and the rule's index
    scored_batch  \* the last score_batch / get_qualified_prospects call and
                  \* the list it returned (NoBatch before)

pipeline_vars == <<steps, step_order, pc, idx, record, retries, last_error,
                   fetch_log, returned>>

\* the state of a batch
batch_vars == <<parallel, workers, records, batch_results>>

\* the state of the recipe engine
recipe_vars == <<builder, recipe, recipe_call>>

\* the state of the scoring engine
scorer_vars == <<scorer, scored, score_function_calls, scored_batch>>

\* the state outside the single runs of enrich
outside_runs == <<batch_vars, recipe_vars, scorer_vars>>

\* the state outside the pipeline and the run in progress
outside_pipeline == <<first_run, outside_runs>>

vars == <<pipeline_vars, outside_pipeline>>

\* ------------------------------------------------------------------ helpers
Min(S) == CHOOSE x \in S : \A y \in S : x <= y

\* next((s for s in steps if s.name == name), None)
FirstNamed(ss, name) ==
    LET I == {i \in 1..Len(ss) : ss[i].name = name}
    IN IF I = {} THEN NoStep ELSE ss[Min(I)]

\* EnrichmentPipeline.get_step
get_step(name) == FirstNamed(steps, name)

RECURSIVE visit(_, _, _)
RECURSIVE visit_deps(_, _, _)

\* _recalculate_order.visit: st = [visited, order]
visit(ss, step_name, st) ==
    IF step_name \in st.visited THEN st
    ELSE LET st1 == [st EXCEPT !.visited = @ \cup {step_name}]
             step == FirstNamed(ss, step_name)
         IN IF step = NoStep THEN st1
            ELSE LET st2 == visit_deps(ss, step.depends_on, st1)
                 IN [st2 EXCEPT !.order = Append(@, step_name)]

\* for dep in step.depends_on: visit(dep)
visit_deps(ss, deps, st) ==
    IF deps = <<>> THEN st
    ELSE visit_deps(ss, Tail(deps), visit(ss, Head(deps), st))

RECURSIVE visit_all(_, _, _)
\* for step in self.steps: visit(step.name)
visit_all(ss, i, st) ==
    IF i > Len(ss) THEN st
    ELSE visit_all(ss, i + 1, visit(ss, ss[i].name, st))

RECURSIVE emit_ready(_, _)
\* an order computation that emits a step only once all its dependencies are
\* emitted, and so leaves out the steps of a cycle and those behind them
emit_ready(ss, order) ==
    LET emitted == {order[p] : p \in 1..Len(order)}
        ready == {i \in 1..Len(ss) :
                     /\ ss[i].name \notin emitted
                     /\ \A d \in 1..Len(ss[i].depends_on) :
                           ss[i].depends_on[d] \in emitted}
    IN IF ready = {} THEN order
       ELSE emit_ready(ss, Append(order, ss[Min(ready)].name))

recalculate_order_ready_only(ss) == emit_ready(ss, <<>>)

\* EnrichmentPipeline._recalculate_order
recalculate_order(ss) ==
    visit_all(ss, 1, [visited |-> {}, order |-> <<>>]).order

\* EnrichmentResult(step_name, status, data, error)
EnrichmentResult(step_name, status, data, error) ==
    [step_name |-> step_name, status |-> status, data |-> data, error |-> error]

\* ProspectRecord(prospect_id, initial_data)
ProspectRecord(initial_data) ==
    [initial_data |-> initial_data, enriched_data |-> EmptyDict,
     enrichment_results |-> <<>>]

\* merge_enrichment that keeps a key already present (first writer wins)
merge_enrichment_keep_first(rec, result) ==
    [rec EXCEPT
        !.enrichment_results = Append(@, result),
        !.enriched_data =
            IF result.status = COMPLETED /\ result.data # EmptyDict
            THEN DictUpdate(result.data, @) ELSE @]

\* merge_enrichment that assigns the step's data instead of updating with it
merge_enrichment_replace(rec, result) ==
    [rec EXCEPT
        !.enrichment_results = Append(@, result),
        !.enriched_data =
            IF result.status = COMPLETED /\ result.data # EmptyDict
            THEN result.data ELSE @]

\* ProspectRecord.merge_enrichment
merge_enrichment(rec, result) ==
    [rec EXCEPT
        !.enrichment_results = Append(@, result),
        !.enriched_data =
            IF result.status = COMPLETED /\ result.data # EmptyDict
            THEN DictUpdate(@, result.data) ELSE @]

\* all_data with the two dicts swapped: an initial field wins over an
\* enriched field of the same key
all_data_initial_wins(rec) == DictUpdate(rec.enriched_data, rec.initial_data)

\* ProspectRecord.all_data
all_data(rec) == DictUpdate(rec.initial_data, rec.enriched_data)

\* enrichment_complete that accepts COMPLETED only
enrichment_complete_only_completed(rec) ==
    \A i \in 1..Len(rec.enrichment_results) :
        rec.enrichment_results[i].status = COMPLETED

\* ProspectRecord.enrichment_complete
enrichment_complete(rec) ==
    \A i \in 1..Len(rec.enrichment_results) :
        rec.enrichment_results[i].status \in {COMPLETED, SKIPPED}

\* deps_met with the status test lost: any result of the dependency counts
deps_met_any_status(rec, step) ==
    \A d \in 1..Len(step.depends_on) :
        \E i \in 1..Len(rec.enrichment_results) :
            rec.enrichment_results[i].step_name = step.depends_on[d]

\* deps_met that takes a SKIPPED result of the dependency as good enough
deps_met_skipped_counts(rec, step) ==
    \A d \in 1..Len(step.depends_on) :
        \E i \in 1..Len(rec.enrichment_results) :
            /\ rec.enrichment_results[i].step_name = step.depends_on[d]
            /\ rec.enrichment_results[i].status \in {COMPLETED, SKIPPED}

\* the dependency check of enrich
deps_met(rec, step) ==
    \A d \in 1..Len(step.depends_on) :
        \E i \in 1..Len(rec.enrichment_results) :
            /\ rec.enrichment_results[i].step_name = step.depends_on[d]
            /\ rec.enrichment_results[i].status = COMPLETED

\* a handler that catches one kind of error only
Catches_one_kind(e) == e = "e1"

\* `except Exception`: every error a fetch function raises is caught
Catches(e) == TRUE

\* the loop condition off by one: while retries < self.retry_count
may_attempt_off_by_one(step, n) == n < step.retry_count

\* execute's loop condition: while retries <= self.retry_count
may_attempt(step, n) == n <= step.retry_count

\* the break lost: a failed required step does not stop the loop
stop_pipeline_never(step, result) == FALSE

\* the break taken on every failure, required or not
stop_pipeline_any_failure(step, result) == result.status = FAILED

\* enrich: if step.required and result.status == FAILED: break
stop_pipeline(step, result) == step.required /\ result.status = FAILED

\* the step enrich's loop is at
CurrentStep == get_step(step_order[idx])

InLoop == pc = "loop" /\ idx <= Len(step_order)

\* bounds of the recipes built: add_ingredient, add_condition and
\* add_scoring calls made on one builder
MaxIngredients == 2
MaxConditions == 2
MaxScoring == 2

\* DataRecipeBuilder._reset: score_threshold defaults to 70
DefaultScoreThreshold == 70

\* DataRecipeBuilder._reset
builder_reset ==
    [ingredients |-> <<>>, required_conditions |-> <<>>,
     optional_conditions |-> <<>>, scoring_components |-> <<>>,
     score_threshold |-> DefaultScoreThreshold, output_segment |-> ""]

\* no recipe built yet
NoRecipe == [name |-> None]

\* no call made on the recipe yet
NoCall == [method |-> None]

\* a new DataRecipeBuilder, nothing built or called
recipe_idle ==
    /\ builder = builder_reset
    /\ recipe = NoRecipe
    /\ recipe_call = NoCall

\* ProspectScorer.__init__: threshold defaults to 70
DefaultThreshold == 70

\* no score_prospect call made yet
NoScore == [prospect_id |-> None]

\* ScoreCategory values
ScoreCategory ==
    {"obligation_urgency", "hiring_signal", "technology_gap", "company_fit",
     "timing", "engagement"}

\* a weight is a fraction <<numerator, denominator>>; 1.0
One == <<1, 1>>

\* no score_batch or get_qualified_prospects call made
NoBatch == [method |-> None]

\* a new ProspectScorer() without rules, every category weighted 1.0, nothing
\* scored
scorer_idle ==
    /\ scorer = [threshold |-> DefaultThreshold, rules |-> <<>>,
                 weights |-> [c \in ScoreCategory |-> One]]
    /\ scored = NoScore
    /\ score_function_calls = <<>>
    /\ scored_batch = NoBatch

\* no enrich_batch call made
batch_idle ==
    /\ parallel = FALSE
    /\ workers = <<>>
    /\ records = <<>>
    /\ batch_results = <<>>

\* ------------------------------------------------------------------ actions
Init ==
    /\ steps = <<>>
    /\ step_order = <<>>
    /\ pc = "idle"
    /\ idx = 0
    /\ record = ProspectRecord(EmptyDict)
    /\ retries = 0
    /\ last_error = None
    /\ fetch_log = [n \in Names |-> <<>>]
    /\ returned = <<>>
    /\ first_run = NoRun
    /\ batch_idle
    /\ recipe_idle
    /\ scorer_idle

\* EnrichmentPipeline.add_step
add_step(step) ==
    /\ pc = "idle"
    /\ Len(steps) < MaxSteps
    /\ steps' = Append(steps, step)
    /\ step_order' = recalculate_order(steps')
    /\ UNCHANGED <<pc, idx, record, retries, last_error, fetch_log, returned>>
    /\ UNCHANGED outside_pipeline

\* enrich: the record is created and the loop entered
enrich(initial_data) ==
    /\ pc = "idle"
    /\ pc' = "loop"
    /\ idx' = 1
    /\ record' = ProspectRecord(initial_data)
    /\ UNCHANGED <<steps, step_order, retries, last_error, fetch_log, returned>>
    /\ UNCHANGED outside_pipeline

\* enrich passing over a step whose dependencies are not met without a
\* result for it
enrich_skip_silent ==
    /\ InLoop
    /\ CurrentStep = NoStep \/ ~deps_met(record, CurrentStep)
    /\ idx' = idx + 1
    /\ UNCHANGED <<steps, step_order, pc, record, retries, last_error, fetch_log,
                   returned>>
    /\ UNCHANGED outside_pipeline

\* enrich: get_step found nothing under the name (continue), or the step's
\* dependencies are not met (a SKIPPED result is appended, continue)
enrich_skip ==
    /\ InLoop
    /\ IF CurrentStep = NoStep
       THEN UNCHANGED record
       ELSE /\ ~deps_met(record, CurrentStep)
            /\ record' = [record EXCEPT !.enrichment_results =
                  Append(@, EnrichmentResult(CurrentStep.name, SKIPPED, EmptyDict,
                                             "Dependencies not met"))]
    /\ idx' = idx + 1
    /\ UNCHANGED <<steps, step_order, pc, retries, last_error, fetch_log, returned>>
    /\ UNCHANGED outside_pipeline

\* execute of a step that is not enabled returning the result as it was
\* created, its status still IN_PROGRESS
execute_disabled_in_progress ==
    /\ InLoop
    /\ CurrentStep # NoStep
    /\ deps_met(record, CurrentStep)
    /\ ~CurrentStep.enabled
    /\ LET result == EnrichmentResult(CurrentStep.name, IN_PROGRESS, EmptyDict, None)
       IN /\ record' = merge_enrichment(record, result)
          /\ IF stop_pipeline(CurrentStep, result)
             THEN pc' = "return" /\ idx' = idx
             ELSE pc' = "loop" /\ idx' = idx + 1
    /\ UNCHANGED <<steps, step_order, retries, last_error, fetch_log, returned>>
    /\ UNCHANGED outside_pipeline

\* enrich -> execute of a step that is not enabled: SKIPPED, merged, next step
execute_disabled ==
    /\ InLoop
    /\ CurrentStep # NoStep
    /\ deps_met(record, CurrentStep)
    /\ ~CurrentStep.enabled
    /\ LET result == EnrichmentResult(CurrentStep.name, SKIPPED, EmptyDict, None)
       IN /\ record' = merge_enrichment(record, result)
          /\ IF stop_pipeline(CurrentStep, result)
             THEN pc' = "return" /\ idx' = idx
             ELSE pc' = "loop" /\ idx' = idx + 1
    /\ UNCHANGED <<steps, step_order, retries, last_error, fetch_log, returned>>
    /\ UNCHANGED outside_pipeline

\* enrich -> execute of an enabled step: retries = 0, last_error = None
execute_begin ==
    /\ InLoop
    /\ CurrentStep # NoStep
    /\ deps_met(record, CurrentStep)
    /\ CurrentStep.enabled
    /\ pc' = "fetch"
    /\ retries' = 0
    /\ last_error' = None
    /\ UNCHANGED <<steps, step_order, idx, record, fetch_log, returned>>
    /\ UNCHANGED outside_pipeline

\* execute: fetch_function returned; COMPLETED, merged, next step
fetch_returns ==
    /\ pc = "fetch"
    /\ may_attempt(CurrentStep, retries)
    /\ fetch_log' = [fetch_log EXCEPT ![CurrentStep.name] = Append(@, "ok")]
    /\ LET result == EnrichmentResult(CurrentStep.name, COMPLETED,
                                      CurrentStep.fetch_function, None)
       IN /\ record' = merge_enrichment(record, result)
          /\ IF stop_pipeline(CurrentStep, result)
             THEN pc' = "return" /\ idx' = idx
             ELSE pc' = "loop" /\ idx' = idx + 1
    /\ UNCHANGED <<steps, step_order, retries, last_error, returned>>
    /\ UNCHANGED outside_pipeline

\* execute: fetch_function raised e; caught, counted, the loop goes round
fetch_raises(e) ==
    /\ pc = "fetch"
    /\ may_attempt(CurrentStep, retries)
    /\ fetch_log' = [fetch_log EXCEPT ![CurrentStep.name] = Append(@, e)]
    /\ IF Catches(e)
       THEN /\ last_error' = e
            /\ retries' = retries + 1
            /\ pc' = pc
       ELSE /\ pc' = "raised"
            /\ UNCHANGED <<last_error, retries>>
    /\ UNCHANGED <<steps, step_order, idx, record, returned>>
    /\ UNCHANGED outside_pipeline

\* execute: the while loop ran out; FAILED with last_error, merged; a required
\* step breaks enrich's loop
execute_failed ==
    /\ pc = "fetch"
    /\ ~may_attempt(CurrentStep, retries)
    /\ LET result == EnrichmentResult(CurrentStep.name, FAILED, EmptyDict, last_error)
       IN /\ record' = merge_enrichment(record, result)
          /\ IF stop_pipeline(CurrentStep, result)
             THEN pc' = "return" /\ idx' = idx
             ELSE pc' = "loop" /\ idx' = idx + 1
    /\ UNCHANGED <<steps, step_order, retries, last_error, fetch_log, returned>>
    /\ UNCHANGED outside_pipeline

\* enrich: return record (the loop ended or was broken)
enrich_return ==
    /\ \/ pc = "return"
       \/ pc = "loop" /\ idx > Len(step_order)
    /\ pc' = "done"
    /\ returned' = record
    /\ UNCHANGED <<steps, step_order, idx, record, retries, last_error, fetch_log>>
    /\ UNCHANGED outside_pipeline

Next ==
    \/ \E s \in StepPool : add_step(s)
    \/ enrich(InitialData)
    \/ enrich_skip
    \/ execute_disabled
    \/ execute_begin
    \/ fetch_returns
    \/ \E e \in Errors : fetch_raises(e)
    \/ execute_failed
    \/ enrich_return

Spec == Init /\ [][Next]_vars

\* ------------------------------------------------- a second call of enrich
\* the step names and statuses of a list of results
NameStatus(rs) == [i \in 1..Len(rs) |-> <<rs[i].step_name, rs[i].status>>]

\* The fetch functions answer the second call as they answered the first:
\* the k-th call of a step's function during the second run has the outcome
\* of the k-th call during the first (a call the first run never made is free).
Replays(outcome) ==
    first_run # NoRun =>
        LET log == first_run.fetch_log[CurrentStep.name]
            k == Len(fetch_log[CurrentStep.name]) + 1
        IN k <= Len(log) => log[k] = outcome

\* a second call that goes on with the record of the first call
enrich_again_same_record ==
    /\ pc = "done"
    /\ first_run = NoRun
    /\ first_run' = [returned |-> returned, fetch_log |-> fetch_log]
    /\ pc' = "loop"
    /\ idx' = 1
    /\ record' = record
    /\ fetch_log' = [n \in Names |-> <<>>]
    /\ returned' = <<>>
    /\ UNCHANGED <<steps, step_order, retries, last_error>>
    /\ UNCHANGED outside_runs

\* enrich called a second time on the same pipeline with the same
\* initial_data, after the first call returned: a new record, the loop entered
enrich_again ==
    /\ pc = "done"
    /\ first_run = NoRun
    /\ first_run' = [returned |-> returned, fetch_log |-> fetch_log]
    /\ pc' = "loop"
    /\ idx' = 1
    /\ record' = ProspectRecord(record.initial_data)
    /\ fetch_log' = [n \in Names |-> <<>>]
    /\ returned' = <<>>
    /\ UNCHANGED <<steps, step_order, retries, last_error>>
    /\ UNCHANGED outside_runs

\* execute's fetch call, answered in a second run as in the first
same_fetch_returns == pc = "fetch" /\ Replays("ok") /\ fetch_returns
same_fetch_raises(e) == pc = "fetch" /\ Replays(e) /\ fetch_raises(e)

RerunNext ==
    \/ \E s \in StepPool : add_step(s)
    \/ enrich(InitialData)
    \/ enrich_skip
    \/ execute_disabled
    \/ execute_begin
    \/ same_fetch_returns
    \/ \E e \in Errors : same_fetch_raises(e)
    \/ execute_failed
    \/ enrich_return
    \/ enrich_again

RerunSpec == Init /\ [][RerunNext]_vars

\* ------------------------------------------- runs of two pipelines compared
\* the steps the pipelines compared are built of
ComparePool == {s \in StepPool : s.name \in {"A", "B"}}

\* a run that was stopped with steps of the order left unattempted
LeftUnattempted(rec, order) ==
    \E p \in 1..Len(order) :
        \A i \in 1..Len(rec.enrichment_results) :
            rec.enrichment_results[i].step_name # order[p]

\* EnrichmentPipeline(): after a run returned, the caller builds another
\* pipeline; what the caller can see of the first run's record, and how that
\* run ended, is kept
another_pipeline ==
    /\ pc = "done"
    /\ first_run = NoRun
    /\ first_run' = [results |-> NameStatus(returned.enrichment_results),
                     enrichment_complete |-> enrichment_complete(returned),
                     broke |-> (idx <= Len(step_order)),
                     unattempted |-> LeftUnattempted(returned, step_order)]
    /\ steps' = <<>>
    /\ step_order' = <<>>
    /\ pc' = "idle"
    /\ idx' = 0
    /\ record' = ProspectRecord(EmptyDict)
    /\ fetch_log' = [n \in Names |-> <<>>]
    /\ returned' = <<>>
    /\ UNCHANGED <<retries, last_error>>
    /\ UNCHANGED outside_runs

CompareNext ==
    \/ \E s \in ComparePool : add_step(s)
    \/ enrich(InitialData)
    \/ enrich_skip
    \/ execute_disabled
    \/ execute_begin
    \/ fetch_returns
    \/ \E e \in Errors : fetch_raises(e)
    \/ execute_failed
    \/ enrich_return
    \/ another_pipeline

CompareSpec == Init /\ [][CompareNext]_vars

\* ------------------------------------------------------------ enrich_batch
\* the prospects handed to enrich_batch
Prospects ==
    <<[id |-> "p1", k0 |-> "init", k1 |-> <<"init", "p1">>],
      [id |-> "p2", k0 |-> "init", k1 |-> <<"init", "p2">>]>>

\* the steps of the pipelines that batches are run on
BatchPool ==
    {s \in StepPool : s.name \in {"A", "B"} /\ s.depends_on \in {<<>>, <<"A">>}}

\* the errors the fetch functions raise during a batch
BatchErrors == {"e1"}

\* What a step's fetch function returns for its input: the step's fields;
\* asked about a prospect with an id, each value names that prospect.
fetch(step, input_data) ==
    IF "id" \in DOMAIN input_data
    THEN [k \in DOMAIN step.fetch_function |->
             <<step.fetch_function[k], input_data["id"]>>]
    ELSE step.fetch_function

\* EnrichmentStep.execute as one call, the outcomes of its fetch calls given
\* in call order
execute(step, input_data, outcomes) ==
    IF ~step.enabled
    THEN EnrichmentResult(step.name, SKIPPED, EmptyDict, None)
    ELSE LET calls == 1..Min({step.retry_count + 1, Len(outcomes)})
         IN IF \E k \in calls : outcomes[k] = "ok"
            THEN EnrichmentResult(step.name, COMPLETED, fetch(step, input_data), None)
            ELSE EnrichmentResult(step.name, FAILED, EmptyDict,
                    IF calls = {} THEN None
                    ELSE outcomes[Min({step.retry_count + 1, Len(outcomes)})])

RECURSIVE enrich_loop(_, _, _)
\* enrich's for loop from position i of _step_order on, run by itself;
\* log gives, per step name, the outcomes of the step's fetch calls
enrich_loop(rec, i, log) ==
    IF i > Len(step_order) THEN rec
    ELSE LET step == get_step(step_order[i])
         IN IF step = NoStep THEN enrich_loop(rec, i + 1, log)
            ELSE IF ~deps_met(rec, step)
            THEN enrich_loop(
                    [rec EXCEPT !.enrichment_results =
                        Append(@, EnrichmentResult(step.name, SKIPPED, EmptyDict,
                                                   "Dependencies not met"))],
                    i + 1, log)
            ELSE LET result == execute(step, all_data(rec), log[step.name])
                     merged == merge_enrichment(rec, result)
                 IN IF stop_pipeline(step, result) THEN merged
                    ELSE enrich_loop(merged, i + 1, log)

\* enrich(prospect_id, initial_data) run alone on the pipeline
enrich_alone(initial_data, log) ==
    enrich_loop(ProspectRecord(initial_data), 1, log)

\* one record object kept and handed to every call
new_record_shared(recs, initial_data) ==
    IF recs = <<>>
    THEN [records |-> <<ProspectRecord(initial_data)>>, ref |-> 1]
    ELSE [records |-> recs, ref |-> 1]

\* record = ProspectRecord(...): every call creates its own object
new_record(recs, initial_data) ==
    [records |-> Append(recs, ProspectRecord(initial_data)), ref |-> Len(recs) + 1]

\* the step worker t's loop is at
WorkerStep(t) == get_step(step_order[workers[t].idx])

\* Worker t may take a step: with parallel the pool runs every submitted call
\* (the prospects are fewer than max_workers); without, the calls of the list
\* comprehension run one after the other.
Runnable(t) ==
    /\ pc = "batch"
    /\ t \in DOMAIN workers
    /\ parallel \/ \A u \in 1..(t - 1) : workers[u].pc = "done"

WorkerInLoop(t) ==
    /\ Runnable(t)
    /\ workers[t].pc = "loop"
    /\ workers[t].idx <= Len(step_order)

outside_batch == <<steps, step_order, idx, record, retries, last_error,
                   fetch_log, returned, first_run, recipe_vars, scorer_vars>>

\* enrich_batch: one enrich call per prospect, submitted to the pool or
\* about to be run in turn
enrich_batch(prospects, par) ==
    /\ pc = "idle"
    /\ pc' = "batch"
    /\ parallel' = par
    /\ workers' = [t \in 1..Len(prospects) |->
                     [pc |-> "start", idx |-> 0, rec |-> 0, retries |-> 0,
                      last_error |-> None, input_data |-> EmptyDict,
                      fetch_log |-> [n \in Names |-> <<>>],
                      initial_data |-> prospects[t]]]
    /\ records' = <<>>
    /\ UNCHANGED batch_results
    /\ UNCHANGED outside_batch

\* a worker's enrich: the record is created and the loop entered
worker_enrich(t) ==
    /\ Runnable(t)
    /\ workers[t].pc = "start"
    /\ LET new == new_record(records, workers[t].initial_data)
       IN /\ records' = new.records
          /\ workers' = [workers EXCEPT ![t].pc = "loop", ![t].idx = 1,
                                        ![t].rec = new.ref]
    /\ UNCHANGED <<pc, parallel, batch_results>>
    /\ UNCHANGED outside_batch

\* the result a worker got from execute is merged into its record; a failed
\* required step breaks the worker's loop
WorkerMerge(t, result) ==
    /\ records' = [records EXCEPT ![workers[t].rec] = merge_enrichment(@, result)]
    /\ workers' = [workers EXCEPT
          ![t].pc = IF stop_pipeline(WorkerStep(t), result) THEN "return" ELSE "loop",
          ![t].idx = IF stop_pipeline(WorkerStep(t), result) THEN @ ELSE @ + 1]

\* a worker's enrich: no step under the name, or dependencies not met
worker_skip(t) ==
    /\ WorkerInLoop(t)
    /\ IF WorkerStep(t) = NoStep
       THEN UNCHANGED records
       ELSE /\ ~deps_met(records[workers[t].rec], WorkerStep(t))
            /\ records' = [records EXCEPT ![workers[t].rec].enrichment_results =
                  Append(@, EnrichmentResult(WorkerStep(t).name, SKIPPED, EmptyDict,
                                             "Dependencies not met"))]
    /\ workers' = [workers EXCEPT ![t].idx = @ + 1]
    /\ UNCHANGED <<pc, parallel, batch_results>>
    /\ UNCHANGED outside_batch

\* a worker's execute of a step that is not enabled
worker_execute_disabled(t) ==
    /\ WorkerInLoop(t)
    /\ WorkerStep(t) # NoStep
    /\ deps_met(records[workers[t].rec], WorkerStep(t))
    /\ ~WorkerStep(t).enabled
    /\ WorkerMerge(t, EnrichmentResult(WorkerStep(t).name, SKIPPED, EmptyDict, None))
    /\ UNCHANGED <<pc, parallel, batch_results>>
    /\ UNCHANGED outside_batch

\* a worker's execute of an enabled step begins: record.all_data is read and
\* passed in, retries = 0, last_error = None
worker_execute_begin(t) ==
    /\ WorkerInLoop(t)
    /\ WorkerStep(t) # NoStep
    /\ deps_met(records[workers[t].rec], WorkerStep(t))
    /\ WorkerStep(t).enabled
    /\ workers' = [workers EXCEPT ![t].pc = "fetch", ![t].retries = 0,
                                  ![t].last_error = None,
                                  ![t].input_data = all_data(records[workers[t].rec])]
    /\ UNCHANGED <<pc, parallel, records, batch_results>>
    /\ UNCHANGED outside_batch

\* a worker's fetch call returned
worker_fetch_returns(t) ==
    /\ Runnable(t)
    /\ workers[t].pc = "fetch"
    /\ may_attempt(WorkerStep(t), workers[t].retries)
    /\ LET result == EnrichmentResult(WorkerStep(t).name, COMPLETED,
                          fetch(WorkerStep(t), workers[t].input_data), None)
           logged == [workers EXCEPT
                         ![t].fetch_log[WorkerStep(t).name] = Append(@, "ok")]
       IN /\ records' = [records EXCEPT
                ![workers[t].rec] = merge_enrichment(@, result)]
          /\ workers' = [logged EXCEPT
                ![t].pc = IF stop_pipeline(WorkerStep(t), result)
                          THEN "return" ELSE "loop",
                ![t].idx = IF stop_pipeline(WorkerStep(t), result) THEN @ ELSE @ + 1]
    /\ UNCHANGED <<pc, parallel, batch_results>>
    /\ UNCHANGED outside_batch

\* a worker's fetch call raised e
worker_fetch_raises(t, e) ==
    /\ Runnable(t)
    /\ workers[t].pc = "fetch"
    /\ may_attempt(WorkerStep(t), workers[t].retries)
    /\ workers' = [workers EXCEPT
          ![t].fetch_log[WorkerStep(t).name] = Append(@, e),
          ![t].last_error = IF Catches(e) THEN e ELSE @,
          ![t].retries = IF Catches(e) THEN @ + 1 ELSE @,
          ![t].pc = IF Catches(e) THEN @ ELSE "raised"]
    /\ UNCHANGED <<pc, parallel, records, batch_results>>
    /\ UNCHANGED outside_batch

\* a worker's execute ran out of attempts: FAILED
worker_execute_failed(t) ==
    /\ Runnable(t)
    /\ workers[t].pc = "fetch"
    /\ ~may_attempt(WorkerStep(t), workers[t].retries)
    /\ WorkerMerge(t, EnrichmentResult(WorkerStep(t).name, FAILED, EmptyDict,
                                      workers[t].last_error))
    /\ UNCHANGED <<pc, parallel, batch_results>>
    /\ UNCHANGED outside_batch

\* a worker's enrich returns its record: the call's future is done
worker_return(t) ==
    /\ Runnable(t)
    /\ \/ workers[t].pc = "return"
       \/ workers[t].pc = "loop" /\ workers[t].idx > Len(step_order)
    /\ workers' = [workers EXCEPT ![t].pc = "done"]
    /\ UNCHANGED <<pc, parallel, records, batch_results>>
    /\ UNCHANGED outside_batch

\* enrich_batch returning the records in the order the calls created them
enrich_batch_return_as_created ==
    /\ pc = "batch"
    /\ \A t \in DOMAIN workers : workers[t].pc = "done"
    /\ batch_results' = records
    /\ pc' = "batch_done"
    /\ UNCHANGED <<parallel, workers, records>>
    /\ UNCHANGED outside_batch

\* enrich_batch returns [f.result() for f in futures], or the list the
\* comprehension built: the calls' records in the order of the prospects
enrich_batch_return ==
    /\ pc = "batch"
    /\ \A t \in DOMAIN workers : workers[t].pc = "done"
    /\ batch_results' = [t \in DOMAIN workers |-> records[workers[t].rec]]
    /\ pc' = "batch_done"
    /\ UNCHANGED <<parallel, workers, records>>
    /\ UNCHANGED outside_batch

BatchNext ==
    \/ \E s \in BatchPool : add_step(s)
    \/ \E par \in BOOLEAN : enrich_batch(Prospects, par)
    \/ \E t \in DOMAIN workers : worker_enrich(t)
    \/ \E t \in DOMAIN workers : worker_skip(t)
    \/ \E t \in DOMAIN workers : worker_execute_disabled(t)
    \/ \E t \in DOMAIN workers : worker_execute_begin(t)
    \/ \E t \in DOMAIN workers : worker_fetch_returns(t)
    \/ \E t \in DOMAIN workers : \E e \in BatchErrors : worker_fetch_raises(t, e)
    \/ \E t \in DOMAIN workers : worker_execute_failed(t)
    \/ \E t \in DOMAIN workers : worker_return(t)
    \/ enrich_batch_return

BatchSpec == Init /\ [][BatchNext]_vars

\* ------------------------------------------------ clayworks/data/recipes.py
\* Python values in a prospect's data and in a condition: an int, a str (the
\* sequence of its characters), a list, None
PyInt(n) == [t |-> "int", v |-> n]
PyStr(chars) == [t |-> "str", v |-> chars]
PyList(elems) == [t |-> "list", v |-> elems]
PyNone == [t |-> "none", v |-> None]

\* ==
py_eq(a, b) == a.t = b.t /\ a.v = b.v

\* the characters of the strings used, in code point order
Chars == <<"-", "/", "0", "1", "2", "3", "4", "5", "6", "7", "8", "9",
           "a", "f", "i", "n", "s">>

Ord(c) == CHOOSE i \in 1..Len(Chars) : Chars[i] = c

RECURSIVE Decimal(_)
\* the decimal digits of a natural number
Decimal(n) ==
    IF n < 10 THEN <<Chars[n + 3]>>
    ELSE Decimal(n \div 10) \o <<Chars[(n % 10) + 3]>>

\* str(value) of an int or a str
py_str(value) ==
    CASE value.t = "str" -> value.v
      [] value.t = "int" ->
            IF value.v < 0 THEN <<"-">> \o Decimal(0 - value.v) ELSE Decimal(value.v)

\* a in b, for two strings
is_substring(a, b) ==
    \E i \in 0..(Len(b) - Len(a)) : SubSeq(b, i + 1, i + Len(a)) = a

RECURSIVE lex_less(_, _)
\* a < b, for two strings
lex_less(a, b) ==
    IF b = <<>> THEN FALSE
    ELSE IF a = <<>> THEN TRUE
    ELSE IF Ord(Head(a)) < Ord(Head(b)) THEN TRUE
    ELSE IF Ord(Head(a)) > Ord(Head(b)) THEN FALSE
    ELSE lex_less(Tail(a), Tail(b))

\* a < b: defined for two ints and for two strs, a TypeError otherwise
py_less(a, b) ==
    IF a.t = "int" THEN a.v < b.v ELSE lex_less(a.v, b.v)

\* a and b can be ordered (<, >, <=, >= do not raise TypeError)
py_orderable(a, b) == a.t = b.t /\ a.t \in {"int", "str"}

\* ConditionOperator
EQUALS == "equals"
NOT_EQUALS == "not_equals"
CONTAINS == "contains"
NOT_CONTAINS == "not_contains"
GREATER_THAN == "greater_than"
LESS_THAN == "less_than"
GREATER_OR_EQUAL == "greater_or_equal"
LESS_OR_EQUAL == "less_or_equal"
IN_LIST == "in_list"
NOT_IN_LIST == "not_in_list"
EXISTS == "exists"
NOT_EXISTS == "not_exists"
MATCHES_REGEX == "matches_regex"
WITHIN_DAYS == "within_days"

\* RecipeCondition(field, operator, value, source)
RecipeCondition(field, operator, value, source) ==
    [field |-> field, operator |-> operator, value |-> value, source |-> source]

\* data.get(field, ""): a missing field read as the empty string
dict_get_or_empty(data, field) ==
    IF field \in DOMAIN data THEN data[field] ELSE PyStr(<<>>)

\* data.get(field)
dict_get(data, field) == IF field \in DOMAIN data THEN data[field] ELSE PyNone

\* RecipeCondition.evaluate raises a TypeError: the operand types do not
\* support the operation
condition_raises(cond, data) ==
    LET field_value == dict_get(data, cond.field)
    IN /\ cond.operator \notin {EXISTS, NOT_EXISTS}
       /\ field_value.t # "none"
       /\ CASE cond.operator \in {CONTAINS, NOT_CONTAINS} -> cond.value.t # "str"
            [] cond.operator \in {GREATER_THAN, LESS_THAN, GREATER_OR_EQUAL,
                                  LESS_OR_EQUAL} ->
                  ~py_orderable(field_value, cond.value)
            [] cond.operator \in {IN_LIST, NOT_IN_LIST} ->
                  \/ cond.value.t \in {"int", "none"}
                  \/ cond.value.t = "str" /\ field_value.t # "str"
            [] OTHER -> FALSE

\* RecipeCondition.evaluate, what it returns when it does not raise
condition_evaluate(cond, data) ==
    LET field_value == dict_get(data, cond.field)
        in_value == IF cond.value.t = "str"
                    THEN is_substring(field_value.v, cond.value.v)
                    ELSE \E i \in 1..Len(cond.value.v) :
                            py_eq(field_value, cond.value.v[i])
    IN CASE cond.operator = EXISTS -> field_value.t # "none"
         [] cond.operator = NOT_EXISTS -> field_value.t = "none"
         [] OTHER ->
            IF field_value.t = "none" THEN FALSE
            ELSE CASE cond.operator = EQUALS -> py_eq(field_value, cond.value)
                   [] cond.operator = NOT_EQUALS -> ~py_eq(field_value, cond.value)
                   [] cond.operator = CONTAINS ->
                         is_substring(cond.value.v, py_str(field_value))
                   [] cond.operator = NOT_CONTAINS ->
                         ~is_substring(cond.value.v, py_str(field_value))
                   [] cond.operator = GREATER_THAN -> py_less(cond.value, field_value)
                   [] cond.operator = LESS_THAN -> py_less(field_value, cond.value)
                   [] cond.operator = GREATER_OR_EQUAL ->
                         ~py_less(field_value, cond.value)
                   [] cond.operator = LESS_OR_EQUAL ->
                         ~py_less(cond.value, field_value)
                   [] cond.operator = IN_LIST -> in_value
                   [] cond.operator = NOT_IN_LIST -> ~in_value
                   [] OTHER -> FALSE

\* RecipeCondition.evaluate returned True
condition_holds(cond, data) ==
    ~condition_raises(cond, data) /\ condition_evaluate(cond, data)

\* DataIngredient(source, data_point, signal_description, required)
DataIngredient(source, required) == [source |-> source, required |-> required]

\* ScoringComponent(name, description, points, weight_percentage, condition)
ScoringComponent(name, points, condition) ==
    [name |-> name, points |-> points, condition |-> condition]

\* the strings of the data and the conditions
saas == <<"s", "a", "a", "s">>
fin == <<"f", "i", "n">>
n_a == <<"n", "/", "a">>

\* the conditions handed to add_condition
ConditionPool ==
    { RecipeCondition("employee_count", GREATER_THAN, PyInt(50), None),
      RecipeCondition("days_to_deadline", LESS_THAN, PyInt(90), "sam_gov"),
      RecipeCondition("industry", IN_LIST, PyList(<<PyStr(saas), PyStr(fin)>>),
                      "clearbit"),
      RecipeCondition("industry", EQUALS, PyStr(saas), "") }

\* the ingredients handed to add_ingredient
IngredientPool ==
    { DataIngredient("sam_gov", TRUE), DataIngredient("builtwith", FALSE) }

\* the scoring components handed to add_scoring
ScoringPool ==
    { ScoringComponent("deadline_urgency", 40,
          RecipeCondition("days_to_deadline", LESS_THAN, PyInt(60), None)),
      ScoringComponent("company_fit", 30,
          RecipeCondition("employee_count", GREATER_OR_EQUAL, PyInt(100), None)) }

\* the thresholds handed to score_threshold
Thresholds == {30}

\* the prospects evaluated
DataPool ==
    { [employee_count |-> PyInt(100), days_to_deadline |-> PyInt(30),
       industry |-> PyStr(saas)],
      [employee_count |-> PyInt(10), days_to_deadline |-> PyInt(30),
       industry |-> PyStr(fin)],
      [employee_count |-> PyStr(n_a), days_to_deadline |-> PyInt(200)],
      [employee_count |-> PyStr(n_a), days_to_deadline |-> PyInt(30),
       industry |-> PyNone],
      EmptyDict }

\* the first condition of the list that is false or raises (0: none): where
\* all(cond.evaluate(data) for cond in conds) stops
first_stop(conds, data) ==
    LET S == {i \in 1..Len(conds) : ~condition_holds(conds[i], data)}
    IN IF S = {} THEN 0 ELSE Min(S)

\* the first condition of the list that raises (0: none)
first_raise(conds, data) ==
    LET S == {i \in 1..Len(conds) : condition_raises(conds[i], data)}
    IN IF S = {} THEN 0 ELSE Min(S)

RECURSIVE total_score(_, _, _)
\* the scoring loop from component i on: the points of the components whose
\* condition evaluates true
total_score(components, data, i) ==
    IF i > Len(components) THEN 0
    ELSE (IF condition_holds(components[i].condition, data)
          THEN components[i].points ELSE 0)
         + total_score(components, data, i + 1)

\* scoring_details
scoring_details(components, data) ==
    SelectSeq([i \in 1..Len(components) |->
                  [component |-> components[i].name, points |-> components[i].points,
                   counted |-> condition_holds(components[i].condition, data)]],
              LAMBDA x : x.counted)

\* qualifies = total_score >= self.score_threshold
qualifies(score, threshold) == score >= threshold

\* the segment reported whatever the outcome
result_output_segment_always(rcp, q) == rcp.output_segment

\* "output_segment": self.output_segment if qualifies else None
result_output_segment(rcp, q) == IF q THEN rcp.output_segment ELSE None

\* evaluate raised out of a condition; evaluated counts the conditions of each
\* list that were evaluated
EvaluateRaised(data, evaluated) ==
    [method |-> "evaluate", prospect_data |-> data, outcome |-> "raised",
     evaluated |-> evaluated]

EvaluateReturned(data, evaluated, result) ==
    [method |-> "evaluate", prospect_data |-> data, outcome |-> "returned",
     evaluated |-> evaluated, result |-> result]

\* DataRecipe.evaluate
recipe_evaluate(rcp, data) ==
    LET req == rcp.required_conditions
        opt == rcp.optional_conditions
        comps == rcp.scoring_components
        conds == [i \in 1..Len(comps) |-> comps[i].condition]
        stop == first_stop(req, data)
        score == total_score(comps, data, 1)
        q == qualifies(score, rcp.score_threshold)
    IN IF stop # 0
       THEN IF condition_raises(req[stop], data)
            THEN EvaluateRaised(data, [required |-> stop, optional |-> 0, scoring |-> 0])
            ELSE EvaluateReturned(data,
                    [required |-> stop, optional |-> 0, scoring |-> 0],
                    [matches |-> FALSE, reason |-> "Required conditions not met",
                     score |-> 0, threshold |-> rcp.score_threshold])
       ELSE IF first_raise(opt, data) # 0
       THEN EvaluateRaised(data, [required |-> Len(req),
                                  optional |-> first_raise(opt, data), scoring |-> 0])
       ELSE IF first_raise(conds, data) # 0
       THEN EvaluateRaised(data, [required |-> Len(req), optional |-> Len(opt),
                                  scoring |-> first_raise(conds, data)])
       ELSE EvaluateReturned(data,
               [required |-> Len(req), optional |-> Len(opt), scoring |-> Len(comps)],
               [matches |-> q, score |-> score, threshold |-> rcp.score_threshold,
                required_conditions_met |-> TRUE,
                optional_conditions_met |->
                    Cardinality({i \in 1..Len(opt) : condition_holds(opt[i], data)}),
                scoring_details |-> scoring_details(comps, data),
                output_segment |-> result_output_segment(rcp, q)])

\* if condition.source: neither None nor the empty string
truthy(source) == source # None /\ source # ""

\* the sources of every ingredient, required or not
get_required_sources_every_ingredient(rcp) ==
    {rcp.ingredients[i].source : i \in 1..Len(rcp.ingredients)}
    \cup {rcp.required_conditions[i].source :
             i \in {j \in 1..Len(rcp.required_conditions) :
                        truthy(rcp.required_conditions[j].source)}}

\* DataRecipe.get_required_sources: the set it collects
get_required_sources(rcp) ==
    {rcp.ingredients[i].source :
        i \in {j \in 1..Len(rcp.ingredients) : rcp.ingredients[j].required}}
    \cup {rcp.required_conditions[i].source :
             i \in {j \in 1..Len(rcp.required_conditions) :
                        truthy(rcp.required_conditions[j].source)}}

\* list(sources): the elements of the set, each once, in some order
list_of(S) ==
    {l \in [1..Cardinality(S) -> S] : \A i, j \in DOMAIN l : l[i] = l[j] => i = j}

outside_recipe == <<pipeline_vars, first_run, batch_vars, scorer_vars>>

Building == recipe = NoRecipe

\* DataRecipeBuilder.add_ingredient
add_ingredient(ingredient) ==
    /\ Building
    /\ Len(builder.ingredients) < MaxIngredients
    /\ builder' = [builder EXCEPT !.ingredients = Append(@, ingredient)]
    /\ UNCHANGED <<recipe, recipe_call>>
    /\ UNCHANGED outside_recipe

\* DataRecipeBuilder.add_condition
add_condition(condition, required) ==
    /\ Building
    /\ Len(builder.required_conditions) + Len(builder.optional_conditions)
          < MaxConditions
    /\ builder' = IF required
                  THEN [builder EXCEPT !.required_conditions = Append(@, condition)]
                  ELSE [builder EXCEPT !.optional_conditions = Append(@, condition)]
    /\ UNCHANGED <<recipe, recipe_call>>
    /\ UNCHANGED outside_recipe

\* DataRecipeBuilder.add_scoring
add_scoring(component) ==
    /\ Building
    /\ Len(builder.scoring_components) < MaxScoring
    /\ builder' = [builder EXCEPT !.scoring_components = Append(@, component)]
    /\ UNCHANGED <<recipe, recipe_call>>
    /\ UNCHANGED outside_recipe

\* DataRecipeBuilder.score_threshold
score_threshold(threshold) ==
    /\ Building
    /\ builder' = [builder EXCEPT !.score_threshold = threshold]
    /\ UNCHANGED <<recipe, recipe_call>>
    /\ UNCHANGED outside_recipe

\* DataRecipeBuilder.output
output(segment) ==
    /\ Building
    /\ builder' = [builder EXCEPT !.output_segment = segment]
    /\ UNCHANGED <<recipe, recipe_call>>
    /\ UNCHANGED outside_recipe

\* DataRecipeBuilder.build: the recipe is made of the builder's fields and the
\* builder reset
build ==
    /\ Building
    /\ recipe' = builder
    /\ builder' = builder_reset
    /\ UNCHANGED recipe_call
    /\ UNCHANGED outside_recipe

\* recipe.evaluate(prospect_data)
evaluate(prospect_data) ==
    /\ recipe # NoRecipe
    /\ recipe_call' = recipe_evaluate(recipe, prospect_data)
    /\ UNCHANGED <<builder, recipe>>
    /\ UNCHANGED outside_recipe

\* recipe.get_required_sources()
required_sources ==
    /\ recipe # NoRecipe
    /\ \E l \in list_of(get_required_sources(recipe)) :
          recipe_call' = [method |-> "get_required_sources", returned |-> l]
    /\ UNCHANGED <<builder, recipe>>
    /\ UNCHANGED outside_recipe

RecipeNext ==
    \/ \E i \in IngredientPool : add_ingredient(i)
    \/ \E c \in ConditionPool : \E required \in BOOLEAN : add_condition(c, required)
    \/ \E c \in ScoringPool : add_scoring(c)
    \/ \E t \in Thresholds : score_threshold(t)
    \/ output("segment")
    \/ build
    \/ \E d \in DataPool : evaluate(d)
    \/ required_sources

RecipeSpec == Init /\ [][RecipeNext]_vars

\* -------------------------------------------- RecipeCondition.evaluate alone
\* ConditionOperator: every member
ConditionOperator ==
    {EQUALS, NOT_EQUALS, CONTAINS, NOT_CONTAINS, GREATER_THAN, LESS_THAN,
     GREATER_OR_EQUAL, LESS_OR_EQUAL, IN_LIST, NOT_IN_LIST, EXISTS, NOT_EXISTS,
     MATCHES_REGEX, WITHIN_DAYS}

\* the fields and comparison values of the conditions evaluated
ConditionFields == {"employee_count", "industry", "days_to_deadline"}
ConditionValues ==
    {PyInt(50), PyStr(saas), PyList(<<PyStr(saas), PyStr(fin)>>), PyNone}

\* what a RecipeCondition.evaluate call came to
ConditionRaised(cond, data) ==
    [method |-> "condition_evaluate", condition |-> cond, data |-> data,
     outcome |-> "raised"]

ConditionReturned(cond, data, result) ==
    [method |-> "condition_evaluate", condition |-> cond, data |-> data,
     outcome |-> "returned", result |-> result]

\* RecipeCondition.evaluate, called on a condition of its own
RecipeCondition_evaluate(cond, data) ==
    /\ recipe_call' = IF condition_raises(cond, data)
                       THEN ConditionRaised(cond, data)
                       ELSE ConditionReturned(cond, data,
                                              condition_evaluate(cond, data))
    /\ UNCHANGED <<builder, recipe>>
    /\ UNCHANGED outside_recipe

\* the conditions evaluated: every operator on every field against every value
Conditions ==
    {RecipeCondition(f, op, v, None) :
        f \in ConditionFields, op \in ConditionOperator, v \in ConditionValues}

ConditionNext ==
    \E cond \in Conditions, data \in DataPool :
        RecipeCondition_evaluate(cond, data)

ConditionSpec == Init /\ [][ConditionNext]_vars

\* ------------------------------------------------ clayworks/core/scoring.py
\* add_rule / create_rule calls made on one scorer
MaxRules == 2

\* ScoringRule(name, category, description, max_points, condition,
\* score_function, weight). The two callables are given by their parameters:
\* condition is d.get(field, 0) > above, score_function is
\* d.get(field, 0) * per_item.
ScoringRule(name, category, max_points, field, above, per_item, weight) ==
    [name |-> name, category |-> category, max_points |-> max_points,
     field |-> field, above |-> above, per_item |-> per_item, weight |-> weight]

\* d.get(field, 0) of a prospect whose fields are ints
int_get(data, field) == IF field \in DOMAIN data THEN data[field] ELSE 0

\* rule.condition(prospect_data)
rule_condition(rule, data) == int_get(data, rule.field) > rule.above

\* rule.score_function(prospect_data)
rule_score_function(rule, data) == int_get(data, rule.field) * rule.per_item

\* int(raw_score * weight): the product truncated toward zero
int_times(raw_score, weight) ==
    LET n == raw_score * weight[1]
    IN IF n >= 0 THEN n \div weight[2] ELSE 0 - ((0 - n) \div weight[2])

\* ScoringRule.evaluate without the cap
rule_evaluate_uncapped(rule, data) ==
    IF rule_condition(rule, data)
    THEN [applies |-> TRUE, raw_score |-> rule_score_function(rule, data),
          weighted_score |-> int_times(rule_score_function(rule, data), rule.weight),
          rule_name |-> rule.name, category |-> rule.category]
    ELSE [applies |-> FALSE, raw_score |-> 0, weighted_score |-> 0,
          rule_name |-> rule.name, category |-> rule.category]

\* ScoringRule.evaluate
rule_evaluate(rule, data) ==
    IF rule_condition(rule, data)
    THEN [applies |-> TRUE, raw_score |-> rule_score_function(rule, data),
          weighted_score |->
              Min({int_times(rule_score_function(rule, data), rule.weight),
                   rule.max_points}),
          rule_name |-> rule.name, category |-> rule.category]
    ELSE [applies |-> FALSE, raw_score |-> 0, weighted_score |-> 0,
          rule_name |-> rule.name, category |-> rule.category]

\* ScoringRule.evaluate's calls of score_function: one, behind the condition
rule_evaluate_calls(rule, data, prospect_id, i) ==
    IF rule_condition(rule, data)
    THEN <<[prospect |-> prospect_id, rule |-> i]>>
    ELSE <<>>

RECURSIVE score_loop_max_of_applying(_, _, _, _)
\* score_prospect's loop counting max_points of the applying rules only
score_loop_max_of_applying(rules, data, i, acc) ==
    IF i > Len(rules) THEN acc
    ELSE LET result == rule_evaluate(rules[i], data)
         IN score_loop_max_of_applying(rules, data, i + 1,
               IF result.applies
               THEN [acc EXCEPT
                       !.rule_results = Append(@, result),
                       !.max_possible = @ + rules[i].max_points,
                       !.total_score = @ + result.weighted_score,
                       !.category_scores =
                           DictUpdate(@, [c \in {result.category} |->
                               (IF result.category \in DOMAIN @
                                THEN @[result.category] ELSE 0)
                               + result.weighted_score])]
               ELSE [acc EXCEPT !.rule_results = Append(@, result)])

RECURSIVE score_loop(_, _, _, _)
\* score_prospect's loop over self.rules from rule i on; acc holds
\* rule_results, category_scores, total_score and max_possible
score_loop(rules, data, i, acc) ==
    IF i > Len(rules) THEN acc
    ELSE LET result == rule_evaluate(rules[i], data)
             counted == [acc EXCEPT
                            !.rule_results = Append(@, result),
                            !.max_possible = @ + rules[i].max_points]
         IN score_loop(rules, data, i + 1,
               IF result.applies
               THEN [counted EXCEPT
                       !.total_score = @ + result.weighted_score,
                       !.category_scores =
                           DictUpdate(@, [c \in {result.category} |->
                               (IF result.category \in DOMAIN @
                                THEN @[result.category] ELSE 0)
                               + result.weighted_score])]
               ELSE counted)

\* ProspectScorer.score_prospect: the ProspectScore it returns (scored_at and
\* the float confidence are left out)
score_prospect_result(sc, prospect_id, data) ==
    LET acc == score_loop(sc.rules, data, 1,
                   [rule_results |-> <<>>, category_scores |-> EmptyDict,
                    total_score |-> 0, max_possible |-> 0])
    IN [prospect_id |-> prospect_id, total_score |-> acc.total_score,
        max_possible |-> acc.max_possible,
        category_scores |-> acc.category_scores,
        rule_results |-> acc.rule_results,
        qualifies |-> (acc.total_score >= sc.threshold),
        threshold_used |-> sc.threshold]

RECURSIVE score_prospect_calls(_, _, _, _)
\* the score_function calls of one score_prospect call, from rule i on
score_prospect_calls(rules, data, prospect_id, i) ==
    IF i > Len(rules) THEN <<>>
    ELSE rule_evaluate_calls(rules[i], data, prospect_id, i)
         \o score_prospect_calls(rules, data, prospect_id, i + 1)

\* the rules handed to add_rule
RulePool ==
    { ScoringRule("recent_relevant_hiring", "hiring_signal", 15,
                  "recent_job_postings", 0, 5, One),
      ScoringRule("weighted_hiring", "hiring_signal", 15,
                  "recent_job_postings", 0, 5, <<3, 2>>),
      ScoringRule("missing_key_tech", "technology_gap", 10, "tech_gaps", 0, 3,
                  <<1, 2>>),
      ScoringRule("growth", "company_fit", 60, "growth", 0 - 10, 15, <<3, 2>>) }

\* the arguments handed to create_rule
CreateRulePool ==
    { ScoringRule("has_contract_obligation", "obligation_urgency", 15,
                  "contract_obligations", 0, 5, One) }

\* the prospects scored
ScoringData ==
    { [id |-> "p1", recent_job_postings |-> 5, tech_gaps |-> 1, growth |-> 4],
      [id |-> "p2", recent_job_postings |-> 1, growth |-> 0 - 3,
       contract_obligations |-> 4],
      [id |-> "p3", tech_gaps |-> 6] }

outside_scorer == <<pipeline_vars, first_run, batch_vars, recipe_vars>>

\* ProspectScorer.add_rule
add_rule(rule) ==
    /\ Len(scorer.rules) < MaxRules
    /\ scorer' = [scorer EXCEPT !.rules = Append(@, rule)]
    /\ UNCHANGED <<scored, score_function_calls, scored_batch>>
    /\ UNCHANGED outside_scorer

\* ProspectScorer.create_rule: the rule takes the weight of its category
create_rule(rule) ==
    /\ Len(scorer.rules) < MaxRules
    /\ scorer' = [scorer EXCEPT !.rules =
                     Append(@, [rule EXCEPT !.weight = scorer.weights[rule.category]])]
    /\ UNCHANGED <<scored, score_function_calls, scored_batch>>
    /\ UNCHANGED outside_scorer

\* ProspectScorer.score_prospect
score_prospect(prospect_id, prospect_data) ==
    /\ scored' = score_prospect_result(scorer, prospect_id, prospect_data)
    /\ score_function_calls' =
           score_prospect_calls(scorer.rules, prospect_data, prospect_id, 1)
    /\ UNCHANGED <<scorer, scored_batch>>
    /\ UNCHANGED outside_scorer

ScorerNext ==
    \/ \E r \in RulePool : add_rule(r)
    \/ \E r \in CreateRulePool : create_rule(r)
    \/ \E d \in ScoringData : score_prospect(d["id"], d)

ScorerSpec == Init /\ [][ScorerNext]_vars

\* ------------------------------------------------- score_batch and its users
\* str(n) of a list length
IndexStr == <<"0", "1", "2", "3", "4">>
str_len(n) == IndexStr[n + 1]

\* prospect.get(id_field, str(len(scores))), scores holding i - 1 scores
prospect_id_of(prospect, i) ==
    IF "id" \in DOMAIN prospect THEN prospect["id"] ELSE str_len(i - 1)

\* one step of scores.sort(key=total_score, reverse=True) that would put x
\* before the scores equal to it
sort_insert_before_equal(sorted, x) ==
    LET k == Cardinality({j \in 1..Len(sorted) :
                             sorted[j].total_score > x.total_score})
    IN SubSeq(sorted, 1, k) \o <<x>> \o SubSeq(sorted, k + 1, Len(sorted))

\* one step of scores.sort(key=total_score, reverse=True): list.sort is
\* stable, also with reverse=True, so x goes behind the scores already placed
\* whose total_score is at least its own
sort_insert(sorted, x) ==
    LET k == Cardinality({j \in 1..Len(sorted) :
                             sorted[j].total_score >= x.total_score})
    IN SubSeq(sorted, 1, k) \o <<x>> \o SubSeq(sorted, k + 1, Len(sorted))

RECURSIVE sort_descending(_, _, _)
\* scores.sort(key=lambda x: x.total_score, reverse=True), from scores[i] on
sort_descending(scores, i, sorted) ==
    IF i > Len(scores) THEN sorted
    ELSE sort_descending(scores, i + 1, sort_insert(sorted, scores[i]))

\* score_batch's loop: one score_prospect per prospect, in input order
batch_scores(sc, prospects) ==
    [i \in 1..Len(prospects) |->
        score_prospect_result(sc, prospect_id_of(prospects[i], i), prospects[i])]

\* ProspectScorer.score_batch: the list it returns
score_batch_result(sc, prospects) ==
    sort_descending(batch_scores(sc, prospects), 1, <<>>)

RECURSIVE score_batch_calls(_, _, _)
\* the score_function calls of one score_batch call, from prospect i on
score_batch_calls(sc, prospects, i) ==
    IF i > Len(prospects) THEN <<>>
    ELSE score_prospect_calls(sc.rules, prospects[i],
                              prospect_id_of(prospects[i], i), 1)
         \o score_batch_calls(sc, prospects, i + 1)

\* get_qualified_prospects without its filter
keep_all(scores) == scores

\* [s for s in scores if s.qualifies]
keep_qualified(scores) == SelectSeq(scores, LAMBDA s : s.qualifies)

\* ProspectScorer.get_qualified_prospects: the list it returns
get_qualified_prospects_result(sc, prospects) ==
    keep_qualified(score_batch_result(sc, prospects))

\* a threshold handed to ProspectScorer(threshold=...)
ScorerThresholds == {15}

\* a prospect of ScoringData
Prospect(id) == CHOOSE d \in ScoringData : d["id"] = id

\* a prospect without the id field
NoId == [recent_job_postings |-> 5]

\* the lists handed to score_batch and get_qualified_prospects
BatchInputs ==
    { <<>>,
      <<Prospect("p1")>>,
      <<Prospect("p1"), Prospect("p3"), Prospect("p2")>>,
      <<Prospect("p3"), Prospect("p1"), Prospect("p2")>>,
      <<Prospect("p3"), NoId, Prospect("p1")>>,
      <<NoId, Prospect("p1"), Prospect("p3")>>,
      <<Prospect("p2"), Prospect("p2"), Prospect("p1")>>,
      <<Prospect("p3"), NoId, Prospect("p2"), Prospect("p1")>> }

\* ProspectScorer(threshold=threshold): a scorer made with its own threshold,
\* before any rule is added or anything scored
ProspectScorer(threshold) ==
    /\ scorer.rules = <<>>
    /\ scorer.threshold = DefaultThreshold
    /\ scored = NoScore
    /\ scored_batch = NoBatch
    /\ scorer' = [scorer EXCEPT !.threshold = threshold]
    /\ UNCHANGED <<scored, score_function_calls, scored_batch>>
    /\ UNCHANGED outside_scorer

\* ProspectScorer.score_batch
score_batch(prospects) ==
    /\ scored_batch' = [method |-> "score_batch", prospects |-> prospects,
                         scores |-> score_batch_result(scorer, prospects)]
    /\ score_function_calls' = score_batch_calls(scorer, prospects, 1)
    /\ UNCHANGED <<scorer, scored>>
    /\ UNCHANGED outside_scorer

\* ProspectScorer.get_qualified_prospects
get_qualified_prospects(prospects) ==
    /\ scored_batch' = [method |-> "get_qualified_prospects",
                         prospects |-> prospects,
                         scores |-> get_qualified_prospects_result(scorer, prospects)]
    /\ score_function_calls' = score_batch_calls(scorer, prospects, 1)
    /\ UNCHANGED <<scorer, scored>>
    /\ UNCHANGED outside_scorer

ScoreBatchNext ==
    \/ \E t \in ScorerThresholds : ProspectScorer(t)
    \/ \E r \in RulePool : add_rule(r)
    \/ \E r \in CreateRulePool : create_rule(r)
    \/ \E ps \in BatchInputs : score_batch(ps)
    \/ \E ps \in BatchInputs : get_qualified_prospects(ps)

ScoreBatchSpec == Init /\ [][ScoreBatchNext]_vars

\* ------------------------------------------------------------------ claims
Results == record.enrichment_results

\* positions of a step name in the execution order / in the results
OrderPos(name) == {p \in 1..Len(step_order) : step_order[p] = name}
ResultPos(name) == {i \in 1..Len(Results) : Results[i].step_name = name}

\* some result among rs says the step of that name COMPLETED
HasCompleted(rs, name) ==
    \E j \in 1..Len(rs) : rs[j].step_name = name /\ rs[j].status = COMPLETED

HasFailed(name) == \E i \in ResultPos(name) : Results[i].status = FAILED

\* enrich left its loop by the break (the loop variable never passed the end)
CutShort == pc \in {"return", "done"} /\ idx <= Len(step_order)

\* the step at position q of the order went through execute: it has a result,
\* and if it is enabled its fetch function was called
Executed(q) ==
    /\ ResultPos(step_order[q]) # {}
    /\ get_step(step_order[q]).enabled =>
          /\ fetch_log[step_order[q]] # <<>>
          /\ \A i \in ResultPos(step_order[q]) : Results[i].status # SKIPPED

AllDepsCompleted(q) ==
    \A d \in 1..Len(get_step(step_order[q]).depends_on) :
        HasCompleted(Results, get_step(step_order[q]).depends_on[d])

\* a step that is not required ended FAILED at position p
NonRequiredFailedAt(p) ==
    ~get_step(step_order[p]).required /\ HasFailed(step_order[p])

\* C1: after any sequence of add_step calls, every name in a step's depends_on
\* appears strictly before the step's own name in _step_order.
C1_TopologicalOrder ==
    \A i \in 1..Len(steps) :
        \A d \in 1..Len(steps[i].depends_on) :
            \E p \in OrderPos(steps[i].depends_on[d]) :
                \E q \in OrderPos(steps[i].name) : p < q

\* C2: once a required step has ended FAILED, no step later in the execution
\* order is attempted: its fetch function is never called and the record
\* holds no result for it.
C2_RequiredFailureStopsRun ==
    \A p \in 1..Len(step_order) :
        \A q \in 1..Len(step_order) :
            ( /\ p < q
              /\ get_step(step_order[p]).required
              /\ HasFailed(step_order[p]) )
            => /\ fetch_log[step_order[q]] = <<>>
               /\ ResultPos(step_order[q]) = {}

\* Scenario C: A; B required, depends on A, its fetch always raises; C depends
\* on B. The run returned exactly A COMPLETED, B FAILED.
C2_Witness ==
    /\ pc = "done"
    /\ step_order = <<"A", "B", "C">>
    /\ get_step("B").required
    /\ get_step("B").depends_on = <<"A">>
    /\ get_step("C").depends_on = <<"B">>
    /\ Len(returned.enrichment_results) = 2
    /\ returned.enrichment_results[1].status = COMPLETED
    /\ returned.enrichment_results[2].status = FAILED
    /\ \A j \in 1..Len(fetch_log["B"]) : fetch_log["B"][j] \in Errors

\* C3: the result of a step the run reached is SKIPPED exactly when the step
\* is not enabled or one of its dependencies had no COMPLETED result when the
\* step was reached; the fetch function of a SKIPPED step is never called; and
\* a SKIPPED step does not end the run (the loop goes on to the next step).
C3_SkippedIff ==
    /\ \A i \in 1..Len(Results) :
          LET r == Results[i]
              s == get_step(r.step_name)
              before == SubSeq(Results, 1, i - 1)
              unmet == \E d \in 1..Len(s.depends_on) :
                          ~HasCompleted(before, s.depends_on[d])
          IN /\ (r.status = SKIPPED) <=> (~s.enabled \/ unmet)
             /\ (r.status = SKIPPED) => fetch_log[r.step_name] = <<>>
    /\ ( /\ pc \in {"return", "done"}
         /\ Results # <<>>
         /\ Results[Len(Results)].status = SKIPPED )
       => Len(Results) = Len(step_order)

\* a run in which a step was SKIPPED because it is disabled, the next one
\* because that dependency did not complete, and a later step still COMPLETED
C3_Witness ==
    /\ pc = "done"
    /\ \E i \in 1..Len(Results) :
          /\ Results[i].status = SKIPPED
          /\ ~get_step(Results[i].step_name).enabled
          /\ \E j \in 1..Len(Results) :
                /\ i < j
                /\ Results[j].status = SKIPPED
                /\ Results[j].error = "Dependencies not met"
                /\ get_step(Results[j].step_name).enabled
                /\ \E k \in 1..Len(Results) : j < k /\ Results[k].status = COMPLETED

\* C4: an enabled step's fetch is called at least once and at most
\* retry_count + 1 times; no call follows a call that returned, and the step is
\* COMPLETED exactly when its last call returned; it is FAILED only after
\* retry_count + 1 calls that all raised, and the result's error is the message
\* of the last of them.
C4_RetryThenFail ==
    /\ \A n \in Names :
          LET L == fetch_log[n]
              s == get_step(n)
          IN L # <<>> =>
                /\ Len(L) <= s.retry_count + 1
                /\ \A j \in 1..(Len(L) - 1) : L[j] \in Errors
                /\ (L[Len(L)] = "ok") <=> HasCompleted(Results, n)
    /\ \A i \in 1..Len(Results) :
          LET r == Results[i]
              L == fetch_log[r.step_name]
              s == get_step(r.step_name)
          IN /\ r.status \in {COMPLETED, FAILED} => Len(L) >= 1
             /\ r.status = FAILED =>
                   /\ Len(L) = s.retry_count + 1
                   /\ \A j \in 1..Len(L) : L[j] \in Errors
                   /\ r.error = L[Len(L)]

\* a step with a retry FAILED after raising two different errors, and the
\* result carries the second
C4_Witness ==
    \E i \in 1..Len(Results) :
        /\ Results[i].status = FAILED
        /\ fetch_log[Results[i].step_name] = <<"e1", "e2">>
        /\ Results[i].error = "e2"

\* C5: no error raised by a fetch function leaves enrich: each is caught and
\* either retried or recorded in a FAILED result, the run never gets stuck,
\* and what enrich returns is the record with the results accumulated so far,
\* also when a required step failed and cut the run short.
C5_FetchErrorsAbsorbed ==
    /\ pc # "raised"
    /\ pc \in {"loop", "fetch", "return"} => ENABLED Next
    /\ pc = "done" => returned = record
    /\ \A n \in Names :
          LET L == fetch_log[n]
          IN (L # <<>> /\ L[Len(L)] \in Errors) =>
                \/ pc = "fetch" /\ CurrentStep.name = n
                \/ \E i \in ResultPos(n) :
                      Results[i].status = FAILED /\ Results[i].error = L[Len(L)]

\* a run cut short by a required step that FAILED returned the record with the
\* one COMPLETED and the one FAILED result it had
C5_Witness ==
    /\ pc = "done"
    /\ Len(returned.enrichment_results) = 2
    /\ Len(step_order) = 3
    /\ returned.enrichment_results[1].status = COMPLETED
    /\ returned.enrichment_results[2].status = FAILED
    /\ returned.enrichment_results[2].error = "e2"
    /\ get_step(returned.enrichment_results[2].step_name).required

\* C6 as stated: after a run in which a step that is not required FAILED, every
\* later step of the order whose dependencies all have COMPLETED results was
\* executed.
C6_LaterStepsExecuted ==
    pc = "done" =>
        \A p \in 1..Len(step_order) :
            \A q \in 1..Len(step_order) :
                (p < q /\ NonRequiredFailedAt(p) /\ AllDepsCompleted(q))
                => Executed(q)

\* C6 amended: a step that is not required and FAILED does not stop the run:
\* every later step whose dependencies all have COMPLETED results was executed,
\* unless a required step FAILED before that later step and stopped the run.
C6_LaterStepsExecutedUnlessStopped ==
    /\ pc = "done" =>
        \A p \in 1..Len(step_order) :
            \A q \in 1..Len(step_order) :
                ( /\ p < q
                  /\ NonRequiredFailedAt(p)
                  /\ AllDepsCompleted(q)
                  /\ ~\E r \in 1..(q - 1) :
                        get_step(step_order[r]).required /\ HasFailed(step_order[r]) )
                => Executed(q)
    /\ CutShort => get_step(step_order[idx]).required

\* Scenario D: A; B not required, depends on A, its fetch always raises; C
\* depends on A only. B is FAILED and C is COMPLETED.
C6_Witness ==
    /\ pc = "done"
    /\ step_order = <<"A", "B", "C">>
    /\ ~get_step("B").required
    /\ get_step("B").depends_on = <<"A">>
    /\ get_step("C").depends_on = <<"A">>
    /\ Len(Results) = 3
    /\ Results[1].status = COMPLETED
    /\ Results[2].status = FAILED
    /\ Results[3].status = COMPLETED

\* C7: every key of enriched_data holds the value returned by the last result
\* in the record that is COMPLETED and returned that key, every key a
\* COMPLETED step returned is in enriched_data, and nothing else is.
C7_LastWriterWins ==
    /\ \A k \in DOMAIN record.enriched_data :
          \E i \in 1..Len(Results) :
              /\ Results[i].status = COMPLETED
              /\ k \in DOMAIN Results[i].data
              /\ record.enriched_data[k] = Results[i].data[k]
              /\ \A j \in (i + 1)..Len(Results) :
                    ~(Results[j].status = COMPLETED /\ k \in DOMAIN Results[j].data)
    /\ \A i \in 1..Len(Results) :
          /\ Results[i].status = COMPLETED =>
                /\ Results[i].data = get_step(Results[i].step_name).fetch_function
                /\ DOMAIN Results[i].data \subseteq DOMAIN record.enriched_data
          /\ Results[i].status # COMPLETED => Results[i].data = EmptyDict

\* two COMPLETED steps returned different values for k1 with a FAILED step
\* around, and the run ended with the later one's value
C7_Witness ==
    /\ pc = "done"
    /\ \E i \in 1..Len(Results) :
          \E j \in 1..Len(Results) :
              /\ i < j
              /\ Results[i].status = COMPLETED
              /\ Results[j].status = COMPLETED
              /\ "k1" \in DOMAIN Results[i].data
              /\ "k1" \in DOMAIN Results[j].data
              /\ Results[i].data["k1"] # Results[j].data["k1"]
              /\ record.enriched_data["k1"] = Results[j].data["k1"]
    /\ \E f \in 1..Len(Results) : Results[f].status = FAILED

C9_NoDanglingDependency ==
    \A i \in 1..Len(steps) :
        \A d \in 1..Len(steps[i].depends_on) :
            \E j \in 1..Len(steps) : steps[j].name = steps[i].depends_on[d]

\* C10: no two entries of steps have the same name, and every step added is
\* the one get_step returns for its name.
C10_UniqueStepNames ==
    /\ \A i \in 1..Len(steps) :
          \A j \in 1..Len(steps) : i # j => steps[i].name # steps[j].name
    /\ \A i \in 1..Len(steps) : get_step(steps[i].name) = steps[i]

\* C12: every EnrichmentResult stored in the record's enrichment_results has
\* a terminal status (COMPLETED, FAILED or SKIPPED, never PENDING or
\* IN_PROGRESS), and a stored result is never changed by the rest of the run:
\* each step of the run keeps the results already stored, in their places.
C12_TerminalAndStable ==
    /\ [](\A i \in 1..Len(Results) :
            Results[i].status \in {COMPLETED, FAILED, SKIPPED})
    /\ [][\A i \in 1..Len(Results) :
            /\ i <= Len(record'.enrichment_results)
            /\ record'.enrichment_results[i] = Results[i]]_vars

\* a returned record that holds a result of each terminal status, the SKIPPED
\* one coming from execute of a disabled step
C12_Witness ==
    /\ pc = "done"
    /\ \E i \in 1..Len(Results) : Results[i].status = COMPLETED
    /\ \E i \in 1..Len(Results) : Results[i].status = FAILED
    /\ \E i \in 1..Len(Results) :
          /\ Results[i].status = SKIPPED
          /\ ~get_step(Results[i].step_name).enabled
          /\ i < Len(Results)

\* C15: a run changes the record by merging only. While enrich runs, the
\* pipeline's steps and execution order and the record's initial_data (the
\* caller's map) stay as they are; enriched_data changes only in a step that
\* stores a COMPLETED result, and then by adding or overriding exactly the
\* keys that result carries; a step that stores a FAILED or SKIPPED result,
\* and every other step of the run, leaves enriched_data as it was.
C15_OnlyMerging ==
    [][pc # "idle" =>
        /\ steps' = steps
        /\ step_order' = step_order
        /\ record'.initial_data = record.initial_data
        /\ record.initial_data = InitialData
        /\ LET rs == record'.enrichment_results
               stored == Len(rs) = Len(Results) + 1
           IN IF stored /\ rs[Len(rs)].status = COMPLETED
              THEN record'.enriched_data =
                      DictUpdate(record.enriched_data, rs[Len(rs)].data)
              ELSE record'.enriched_data = record.enriched_data]_vars

\* a returned record of two COMPLETED steps and a FAILED one: the first step
\* wrote k1 and k2, the second overrode k2 only, the third changed nothing
C15_Witness ==
    /\ pc = "done"
    /\ Len(Results) = 3
    /\ Results[1].status = COMPLETED
    /\ Results[2].status = COMPLETED
    /\ Results[3].status = FAILED
    /\ DOMAIN Results[1].data = {"k1", "k2"}
    /\ DOMAIN Results[2].data = {"k2"}
    /\ record.enriched_data = [k1 |-> "a2", k2 |-> Results[2].data["k2"]]
    /\ record.initial_data = InitialData
    /\ steps # <<>>

\* C11: enrich run again on the same pipeline with the same initial data,
\* the fetch functions answering as they did the first time, returns the same
\* outcome: the same sequence of (step name, status) results and the same
\* final enriched_data.
C11_RerunSameOutcome ==
    (pc = "done" /\ first_run # NoRun) =>
        /\ NameStatus(returned.enrichment_results)
              = NameStatus(first_run.returned.enrichment_results)
        /\ returned.enriched_data = first_run.returned.enriched_data
        /\ returned.initial_data = first_run.returned.initial_data

\* a second run has returned; the first one retried a fetch that then
\* succeeded, had a step FAILED and a step SKIPPED, and wrote enriched data
C11_Witness ==
    /\ pc = "done"
    /\ first_run # NoRun
    /\ \E n \in Names : \E e \in Errors : first_run.fetch_log[n] = <<e, "ok">>
    /\ \E i \in 1..Len(returned.enrichment_results) :
          returned.enrichment_results[i].status = FAILED
    /\ \E i \in 1..Len(returned.enrichment_results) :
          returned.enrichment_results[i].status = SKIPPED
    /\ returned.enriched_data # EmptyDict
    /\ fetch_log = first_run.fetch_log

\* C14: the outcome of a run can be told from the returned record alone: two
\* runs that returned the same list of (step name, status) results and the
\* same enrichment_complete value are both aborted or both not aborted. In
\* particular it never happens that one of them was stopped by a required
\* step's failure with steps left unattempted while the other ran its loop
\* to the end.
C14_OutcomeFromRecord ==
    ( /\ pc = "done"
      /\ first_run # NoRun
      /\ NameStatus(returned.enrichment_results) = first_run.results
      /\ enrichment_complete(returned) = first_run.enrichment_complete )
    => /\ (first_run.broke /\ first_run.unattempted) => CutShort
       /\ (CutShort /\ LeftUnattempted(returned, step_order)) => first_run.broke

\* every value of a record's enriched_data names the prospect p
OwnFields(rec, p) ==
    \A k \in DOMAIN rec.enriched_data : rec.enriched_data[k][2] = p["id"]

\* C13: in a parallel enrich_batch, whatever the interleaving of the worker
\* threads, each prospect's run is independent: while the batch runs no
\* enriched field of one prospect is in the record of another and a record
\* holds at most one result per step of the order, and the record returned
\* for a prospect is the record enrich returns when run on that prospect
\* alone with the same answers of the fetch functions.
C13_ParallelRunsIndependent ==
    /\ (pc = "batch" /\ parallel) =>
          \A t \in DOMAIN workers :
              workers[t].rec # 0 =>
                 /\ OwnFields(records[workers[t].rec], workers[t].initial_data)
                 /\ Len(records[workers[t].rec].enrichment_results)
                       <= Len(step_order)
    /\ (pc = "batch_done" /\ parallel) =>
          \A t \in DOMAIN workers :
              /\ batch_results[t]
                    = enrich_alone(Prospects[t], workers[t].fetch_log)
              /\ OwnFields(batch_results[t], Prospects[t])

\* a parallel batch returned in which the first prospect's run ended at the
\* failure of its first step while the second prospect's run completed that
\* step and went on: the two records differ
C13_Witness ==
    /\ pc = "batch_done"
    /\ parallel
    /\ Len(batch_results) = Len(Prospects)
    /\ Len(batch_results[1].enrichment_results) = 1
    /\ batch_results[1].enrichment_results[1].status = FAILED
    /\ Len(batch_results[2].enrichment_results) > 1
    /\ batch_results[2].enrichment_results[1].status = COMPLETED
    /\ batch_results[2].enriched_data # EmptyDict

\* the recipe's required condition i is false on the data (it evaluates to
\* False, it does not raise)
RequiredFalse(i, data) ==
    /\ ~condition_raises(recipe.required_conditions[i], data)
    /\ ~condition_evaluate(recipe.required_conditions[i], data)

AllRequiredHold(data) ==
    \A i \in 1..Len(recipe.required_conditions) :
        condition_holds(recipe.required_conditions[i], data)

RECURSIVE PointsOfHolding(_, _)
\* the sum of the points of the recipe's scoring components i.. whose
\* condition holds on the data
PointsOfHolding(i, data) ==
    IF i > Len(recipe.scoring_components) THEN 0
    ELSE PointsOfHolding(i + 1, data)
         + (IF condition_holds(recipe.scoring_components[i].condition, data)
            THEN recipe.scoring_components[i].points ELSE 0)

\* C16: if any required condition of the recipe is false on the record then
\* DataRecipe.evaluate returns matches = false and score = 0 whatever the
\* scoring components are, and it evaluates no optional condition and no
\* scoring component.
C16_RequiredGate ==
    ( /\ recipe_call.method = "evaluate"
      /\ \E i \in 1..Len(recipe.required_conditions) :
            RequiredFalse(i, recipe_call.prospect_data) )
    => /\ recipe_call.outcome = "returned"
       /\ recipe_call.result.matches = FALSE
       /\ recipe_call.result.score = 0
       /\ recipe_call.evaluated.optional = 0
       /\ recipe_call.evaluated.scoring = 0

\* C17: DataRecipe.evaluate returns matches = true exactly when all required
\* conditions hold and the score is at least score_threshold, the score being
\* the sum of the full points of the scoring components whose condition
\* holds; the optional conditions have no part in matches or score.
C17_MatchesIff ==
    recipe_call.method = "evaluate" =>
        LET data == recipe_call.prospect_data
            score == PointsOfHolding(1, data)
        IN /\ (recipe_call.outcome = "returned" /\ recipe_call.result.matches)
                <=> (AllRequiredHold(data) /\ score >= recipe.score_threshold)
           /\ (recipe_call.outcome = "returned" /\ AllRequiredHold(data))
                => recipe_call.result.score = score

\* C18: the result of DataRecipe.evaluate carries the recipe's output_segment
\* only when matches is true; when matches is false (a required condition
\* failed, or the score is below the threshold) the result has no
\* output_segment entry or the entry is None.
C18_SegmentOnlyOnMatch ==
    (recipe_call.method = "evaluate" /\ recipe_call.outcome = "returned") =>
        LET result == recipe_call.result
        IN IF result.matches
           THEN result.output_segment = recipe.output_segment
           ELSE \/ "output_segment" \notin DOMAIN result
                \/ result.output_segment = None

\* a recipe with an output segment whose required conditions all hold on the
\* record, which scores points but fewer than the threshold
C18_Witness ==
    /\ recipe_call.method = "evaluate"
    /\ recipe_call.outcome = "returned"
    /\ recipe.output_segment = "segment"
    /\ recipe.required_conditions # <<>>
    /\ recipe_call.result.matches = FALSE
    /\ recipe_call.result.score > 0
    /\ recipe_call.result.score < recipe.score_threshold
    /\ recipe_call.result.output_segment = None

\* C19: get_required_sources returns, each once, exactly the sources of the
\* ingredients marked required and the sources tagged on the required
\* conditions; a source that is only on a non-required ingredient or on an
\* optional condition is not returned.
C19_RequiredSources ==
    recipe_call.method = "get_required_sources" =>
        LET l == recipe_call.returned
        IN /\ \A i, j \in 1..Len(l) : l[i] = l[j] => i = j
           /\ \A src \in {"sam_gov", "builtwith", "clearbit", "", None} :
                 (\E i \in 1..Len(l) : l[i] = src)
                 <=> \/ \E i \in 1..Len(recipe.ingredients) :
                           /\ recipe.ingredients[i].required
                           /\ recipe.ingredients[i].source = src
                     \/ \E i \in 1..Len(recipe.required_conditions) :
                           /\ recipe.required_conditions[i].source = src
                           /\ src \notin {"", None}

\* sam_gov is on a required ingredient and on a required condition,
\* builtwith on a non-required ingredient, clearbit on an optional
\* condition: the list returned is sam_gov, once
C19_Witness ==
    /\ recipe_call.method = "get_required_sources"
    /\ recipe_call.returned = <<"sam_gov">>
    /\ \E i \in 1..Len(recipe.ingredients) :
          recipe.ingredients[i] = DataIngredient("builtwith", FALSE)
    /\ \E i \in 1..Len(recipe.ingredients) :
          recipe.ingredients[i] = DataIngredient("sam_gov", TRUE)
    /\ \E i \in 1..Len(recipe.required_conditions) :
          recipe.required_conditions[i].source = "sam_gov"
    /\ \E i \in 1..Len(recipe.optional_conditions) :
          recipe.optional_conditions[i].source = "clearbit"

Abs(n) == IF n >= 0 THEN n ELSE 0 - n

\* the integer that n / d is cut to when its fraction is dropped
Truncated(n, d) ==
    CHOOSE t \in (0 - Abs(n))..Abs(n) :
        /\ t * n >= 0
        /\ Abs(t) * d <= Abs(n)
        /\ Abs(n) < (Abs(t) + 1) * d

RECURSIVE Denominators(_, _)
\* the product of the denominators of the weights of rules i..
Denominators(rules, i) ==
    IF i > Len(rules) THEN 1 ELSE rules[i].weight[2] * Denominators(rules, i + 1)

RECURSIVE ExactWeightedSum(_, _, _)
\* Denominators(rules, 1) times the sum, over the rules i.. whose guard is
\* true, of raw score times weight clamped to max_points
ExactWeightedSum(rules, data, i) ==
    IF i > Len(rules) THEN 0
    ELSE (IF rule_condition(rules[i], data)
          THEN Min({rule_score_function(rules[i], data) * rules[i].weight[1],
                    rules[i].max_points * rules[i].weight[2]})
               * (Denominators(rules, 1) \div rules[i].weight[2])
          ELSE 0)
         + ExactWeightedSum(rules, data, i + 1)

RECURSIVE TruncatedWeightedSum(_, _, _)
\* the sum, over the rules i.. whose guard is true, of raw score times
\* weight, cut to an integer and then clamped to max_points
TruncatedWeightedSum(rules, data, i) ==
    IF i > Len(rules) THEN 0
    ELSE (IF rule_condition(rules[i], data)
          THEN Min({Truncated(rule_score_function(rules[i], data)
                                  * rules[i].weight[1], rules[i].weight[2]),
                    rules[i].max_points})
          ELSE 0)
         + TruncatedWeightedSum(rules, data, i + 1)

RECURSIVE SumMaxPoints(_, _)
\* the sum of max_points of the rules i..
SumMaxPoints(rules, i) ==
    IF i > Len(rules) THEN 0
    ELSE rules[i].max_points + SumMaxPoints(rules, i + 1)

\* the rules whose score_function the last scoring call invoked for a prospect
InvokedFor(prospect_id) ==
    {score_function_calls'[k].rule : k \in
        {j \in 1..Len(score_function_calls') :
            score_function_calls'[j].prospect = prospect_id}}

\* a rule whose guard is false contributes 0 and its score function is not
\* invoked; one whose guard is true has it invoked; max_possible sums every
\* rule's max_points
GuardAndMax(d) ==
    /\ \A i \in 1..Len(scorer.rules) :
          /\ ~rule_condition(scorer.rules[i], d) =>
                /\ scored'.rule_results[i].weighted_score = 0
                /\ i \notin InvokedFor(d["id"])
          /\ rule_condition(scorer.rules[i], d) => i \in InvokedFor(d["id"])
    /\ scored'.max_possible = SumMaxPoints(scorer.rules, 1)

\* C21 as stated: score_prospect's total_score is the sum, over the rules
\* whose guard is true, of raw score times weight clamped to max_points (the
\* exact product); a rule whose guard is false contributes 0 and its score
\* function is not invoked; max_possible is the sum of every rule's
\* max_points.
C21_TotalIsExactWeightedSum ==
    [][\A d \in ScoringData :
          score_prospect(d["id"], d) =>
              /\ scored'.total_score * Denominators(scorer.rules, 1)
                    = ExactWeightedSum(scorer.rules, d, 1)
              /\ GuardAndMax(d)]_vars

\* C21 amended: the product of raw score and weight is cut to an integer
\* (toward zero) before it is clamped to max_points and summed; the rest as
\* stated.
C21_TotalIsTruncatedWeightedSum ==
    [][\A d \in ScoringData :
          score_prospect(d["id"], d) =>
              /\ scored'.total_score = TruncatedWeightedSum(scorer.rules, d, 1)
              /\ GuardAndMax(d)]_vars

\* a score of two rules: one applied with a weight that made the product
\* a fraction below max_points (5 * 1.5) and its score function was invoked;
\* the guard of the other was false and its score function was not invoked
C21_Witness ==
    /\ scored # NoScore
    /\ Len(scored.rule_results) = 2
    /\ Len(scorer.rules) = 2
    /\ \E i, j \in 1..2 :
          /\ scored.rule_results[i].applies
          /\ scored.rule_results[i].rule_name = scorer.rules[i].name
          /\ (scored.rule_results[i].raw_score * scorer.rules[i].weight[1])
                 % scorer.rules[i].weight[2] # 0
          /\ scored.rule_results[i].weighted_score < scorer.rules[i].max_points
          /\ scored.total_score = scored.rule_results[i].weighted_score
          /\ ~scored.rule_results[j].applies
          /\ score_function_calls = <<[prospect |-> scored.prospect_id, rule |-> i]>>
    /\ scored.max_possible
          = scorer.rules[1].max_points + scorer.rules[2].max_points

\* the one-to-one maps from the positions of a returned list to positions
\* of the input list
Placements(n, m) ==
    {f \in [1..n -> 1..m] : \A j, k \in 1..n : f[j] = f[k] => j = k}

\* the returned scores are those of the input positions f names, in
\* descending total_score, equal totals in input order
DescendingStable(sc, prospects, scores, f) ==
    /\ \A j \in 1..Len(scores) :
          scores[j] = score_prospect_result(sc,
                          prospect_id_of(prospects[f[j]], f[j]), prospects[f[j]])
    /\ \A j, k \in 1..Len(scores) :
          j < k =>
            /\ scores[j].total_score >= scores[k].total_score
            /\ scores[j].total_score = scores[k].total_score => f[j] < f[k]

\* C22: score_batch returns one ProspectScore per input record, in descending
\* total_score, and records of equal total_score keep their input order.
C22_BatchSortedStable ==
    [][\A ps \in BatchInputs :
          score_batch(ps) =>
              /\ Len(scored_batch'.scores) = Len(ps)
              /\ \E f \in Placements(Len(ps), Len(ps)) :
                    DescendingStable(scorer, ps, scored_batch'.scores, f)]_vars

\* a batch of three whose first input is not the best and whose other two
\* tie: the best comes first, the two equal scores follow in input order
C22_Witness ==
    /\ scored_batch.method = "score_batch"
    /\ Len(scored_batch.prospects) = 3
    /\ Len(scored_batch.scores) = 3
    /\ scored_batch.scores[1].prospect_id
          = prospect_id_of(scored_batch.prospects[3], 3)
    /\ scored_batch.scores[1].total_score > scored_batch.scores[2].total_score
    /\ scored_batch.scores[2].total_score = scored_batch.scores[3].total_score
    /\ scored_batch.scores[2].prospect_id
          = prospect_id_of(scored_batch.prospects[1], 1)
    /\ scored_batch.scores[3].prospect_id
          = prospect_id_of(scored_batch.prospects[2], 2)

\* C23: get_qualified_prospects returns exactly the scores of the input
\* records whose total_score is at least the scorer's threshold (qualifies is
\* true iff total_score >= threshold), in the descending order of score_batch.
C23_QualifiedExactly ==
    [][\A ps \in BatchInputs :
          get_qualified_prospects(ps) =>
              LET total(i) == score_prospect_result(scorer,
                                  prospect_id_of(ps[i], i), ps[i]).total_score
                  out == scored_batch'.scores
              IN /\ Len(out) <= Len(ps)
                 /\ \A j \in 1..Len(out) :
                       out[j].qualifies <=> out[j].total_score >= scorer.threshold
                 /\ \E f \in Placements(Len(out), Len(ps)) :
                       /\ {f[j] : j \in 1..Len(out)}
                             = {i \in 1..Len(ps) : total(i) >= scorer.threshold}
                       /\ DescendingStable(scorer, ps, out, f)]_vars

\* three records of which the first scores below the threshold, the second
\* exactly the threshold and the third above it: the third and the second
\* are returned, in that order
C23_Witness ==
    /\ scored_batch.method = "get_qualified_prospects"
    /\ Len(scored_batch.prospects) = 3
    /\ Len(scored_batch.scores) = 2
    /\ scored_batch.scores[1].prospect_id
          = prospect_id_of(scored_batch.prospects[3], 3)
    /\ scored_batch.scores[2].prospect_id
          = prospect_id_of(scored_batch.prospects[2], 2)
    /\ scored_batch.scores[1].total_score > scored_batch.scores[2].total_score
    /\ scored_batch.scores[2].total_score = scored_batch.scores[2].threshold_used
    /\ scored_batch.scores[2].qualifies

\* the last call was RecipeCondition.evaluate
ConditionCalled == recipe_call.method = "condition_evaluate"

\* the field of the condition called is missing from the data or holds None
FieldMissingOrNull ==
    \/ recipe_call.condition.field \notin DOMAIN recipe_call.data
    \/ recipe_call.data[recipe_call.condition.field].t = "none"

\* C24: for a condition whose field is missing from the record or holds None
\* and whose operator is neither EXISTS nor NOT_EXISTS, RecipeCondition.evaluate
\* returns false and does not raise; NOT_EQUALS, NOT_CONTAINS and NOT_IN_LIST
\* included.
C24_MissingFieldIsFalse ==
    (/\ ConditionCalled
     /\ FieldMissingOrNull
     /\ recipe_call.condition.operator \notin {EXISTS, NOT_EXISTS})
        => /\ recipe_call.outcome = "returned"
           /\ recipe_call.result = FALSE

\* NOT_IN_LIST was evaluated on a record without the field, against a value
\* that is no list, and returned false
C24_Witness ==
    /\ ConditionCalled
    /\ recipe_call.condition.field \notin DOMAIN recipe_call.data
    /\ recipe_call.condition.operator = NOT_IN_LIST
    /\ recipe_call.condition.value.t = "int"
    /\ recipe_call.outcome = "returned"
    /\ recipe_call.result = FALSE

\* C25: for GREATER_THAN, LESS_THAN, GREATER_OR_EQUAL and LESS_OR_EQUAL,
\* RecipeCondition.evaluate returns false and never raises when the field
\* value or the comparison value is not a number.
C25_OrderingFailsClosed ==
    (/\ ConditionCalled
     /\ recipe_call.condition.operator
           \in {GREATER_THAN, LESS_THAN, GREATER_OR_EQUAL, LESS_OR_EQUAL}
     /\ \/ FieldMissingOrNull
        \/ recipe_call.data[recipe_call.condition.field].t # "int"
        \/ recipe_call.condition.value.t # "int")
        => /\ recipe_call.outcome = "returned"
           /\ recipe_call.result = FALSE

\* the results of a record that ended COMPLETED
CompletedResults(rec) ==
    {i \in 1..Len(rec.enrichment_results) :
        rec.enrichment_results[i].status = COMPLETED}

\* the COMPLETED results of a record whose data holds the key k
Giving(rec, k) ==
    {i \in CompletedResults(rec) : k \in DOMAIN rec.enrichment_results[i].data}

\* inp is the initial data overlaid with the fields of the COMPLETED results
\* of the record, a later result over an earlier one, and holds nothing else
Accumulated(inp, rec) ==
    /\ DOMAIN inp = DOMAIN rec.initial_data
          \cup UNION {DOMAIN rec.enrichment_results[i].data :
                          i \in CompletedResults(rec)}
    /\ \A k \in DOMAIN inp :
          IF Giving(rec, k) = {}
          THEN inp[k] = rec.initial_data[k]
          ELSE LET last == CHOOSE i \in Giving(rec, k) :
                               \A j \in Giving(rec, k) : j <= i
               IN inp[k] = rec.enrichment_results[last].data[k]

\* C26: the input passed to a step's fetch function is the accumulated record
\* at that point of the run: the initial data overlaid with the fields
\* returned by every step that ended COMPLETED earlier in the run (an
\* enriched field overrides an initial field of the same key), and nothing
\* from FAILED or SKIPPED steps or from steps later in the order.
C26_FetchInputIsAccumulated ==
    \A t \in DOMAIN workers :
        workers[t].pc = "fetch" =>
            Accumulated(workers[t].input_data, records[workers[t].rec])

\* two runs are each in the fetch of their second step: in the first the
\* step before ended COMPLETED and its k1 is passed in over the initial k1;
\* in the second the step before ended FAILED and only the initial data is
\* passed in
C26_Witness ==
    /\ pc = "batch"
    /\ Len(workers) = 2
    /\ workers[1].pc = "fetch"
    /\ workers[2].pc = "fetch"
    /\ records[workers[1].rec].enrichment_results # <<>>
    /\ records[workers[1].rec].enrichment_results[1].status = COMPLETED
    /\ "k1" \in DOMAIN records[workers[1].rec].enrichment_results[1].data
    /\ workers[1].input_data["k1"]
          = records[workers[1].rec].enrichment_results[1].data["k1"]
    /\ workers[1].input_data["k1"] # workers[1].initial_data["k1"]
    /\ records[workers[2].rec].enrichment_results # <<>>
    /\ records[workers[2].rec].enrichment_results[1].status = FAILED
    /\ workers[2].input_data = workers[2].initial_data

\* C27: within one run the steps are handled one at a time in the execution
\* order: the step names of the record's results follow the relative order of
\* _step_order, each step name has at most one result, and while a step's
\* fetch is being invoked every step before it in the order has a terminal
\* result and neither it nor a step after it has a result.
C27_OneAtATimeInOrder ==
    /\ \A i, j \in 1..Len(Results) :
          i < j => \E p, q \in 1..Len(step_order) :
                      /\ p < q
                      /\ step_order[p] = Results[i].step_name
                      /\ step_order[q] = Results[j].step_name
    /\ \A n \in Names : Cardinality(ResultPos(n)) <= 1
    /\ \A i \in 1..Len(Results) : OrderPos(Results[i].step_name) # {}
    /\ pc = "fetch" =>
          /\ \A p \in 1..(idx - 1) :
                \E i \in 1..Len(Results) :
                    /\ Results[i].step_name = step_order[p]
                    /\ Results[i].status \in {COMPLETED, FAILED, SKIPPED}
          /\ \A p \in idx..Len(step_order) : ResultPos(step_order[p]) = {}
    /\ \A n \in Names :
          fetch_log[n] # <<>> => \E p \in 1..Len(step_order) :
                                    step_order[p] = n /\ p <= idx

\* the fetch of the third step of the order is being invoked after the first
\* step ended FAILED and the second was SKIPPED for its unmet dependency
C27_Witness ==
    /\ pc = "fetch"
    /\ idx = 3
    /\ Len(Results) = 2
    /\ Results[1].step_name = step_order[1]
    /\ Results[1].status = FAILED
    /\ Results[2].step_name = step_order[2]
    /\ Results[2].status = SKIPPED

\* no two of the steps added share a name
UniqueNames ==
    \A i, j \in 1..Len(steps) : steps[i].name = steps[j].name => i = j

\* C28: for any dependency graph, cyclic ones and ones with dependencies on
\* steps not added included, the order computed after add_step holds, when
\* step names are unique, the name of every added step exactly once and no
\* other name.
C28_OrderHoldsEveryStepOnce ==
    UniqueNames =>
        /\ \A i \in 1..Len(steps) : Cardinality(OrderPos(steps[i].name)) = 1
        /\ \A p \in 1..Len(step_order) :
              \E i \in 1..Len(steps) : steps[i].name = step_order[p]
        /\ Len(step_order) = Len(steps)

\* two steps that depend on each other and a third step are in the pipeline,
\* and the order holds all three
C28_Witness ==
    /\ UniqueNames
    /\ Len(steps) = 3
    /\ Len(step_order) = 3
    /\ \E i, j \in 1..3 :
          /\ i # j
          /\ \E d \in 1..Len(steps[i].depends_on) :
                steps[i].depends_on[d] = steps[j].name
          /\ \E d \in 1..Len(steps[j].depends_on) :
                steps[j].depends_on[d] = steps[i].name

\* the step run under the name a depends on the name b, and a step is run
\* under b (names are resolved as enrich resolves them, by get_step)
DependsOn(a, b) ==
    /\ get_step(a) # NoStep
    /\ get_step(b) # NoStep
    /\ \E d \in 1..Len(get_step(a).depends_on) : get_step(a).depends_on[d] = b

RECURSIVE DependsWithin(_, _, _)
\* a depends on b through at most n dependencies, at least one
DependsWithin(a, b, n) ==
    /\ n > 0
    /\ \/ DependsOn(a, b)
       \/ \E c \in Names : DependsOn(a, c) /\ DependsWithin(c, b, n - 1)

\* the name is on a cycle of the dependency graph
OnCycle(n) == DependsWithin(n, n, Cardinality(Names))

\* the name is on a cycle or depends, directly or not, on a name that is
BehindCycle(n) ==
    \/ OnCycle(n)
    \/ \E m \in Names : OnCycle(m) /\ DependsWithin(n, m, Cardinality(Names))

C30_BatchKeepsInputOrder ==
    pc = "batch_done" =>
        /\ Len(batch_results) = Len(Prospects)
        /\ \A i \in 1..Len(Prospects) :
              /\ batch_results[i].initial_data = Prospects[i]
              /\ \A k \in DOMAIN batch_results[i].enriched_data :
                    batch_results[i].enriched_data[k][2] = Prospects[i]["id"]

\* a parallel batch returned in which the thread of the second prospect
\* started its run before the thread of the first: the first record returned
\* is still that of the first prospect, with fields fetched for it
C30_Witness ==
    /\ pc = "batch_done"
    /\ parallel
    /\ workers[2].rec < workers[1].rec
    /\ Len(batch_results) = 2
    /\ batch_results[1].initial_data = Prospects[1]
    /\ batch_results[2].initial_data = Prospects[2]
    /\ batch_results[1].enriched_data # EmptyDict
    /\ batch_results[2].enriched_data # EmptyDict
====
